---- MODULE Spec2Model ----
(***************************************************************************)
(* The annotation engine of PaperTrade: the ChartDrawingManager state      *)
(* machine (two-click creation, selection, handle editing, deletion), its  *)
(* coordinate mapper and hit tester, and the interval remapper.            *)
(*                                                                         *)
(* Times are integer seconds.  Prices are integers, one price unit per     *)
(* pixel of the price pane.  Distances compared against a pixel threshold  *)
(* are compared as squares, so that all arithmetic stays exact.            *)
(*                                                                         *)
(* Three engines are modelled, each with its own variables and its own     *)
(* specification: ChartDrawingManager of src/unnamed/part_001 (Spec), the  *)
(* ChartDrawingManager of src/frontend/src/utils (SpecLegacy) and          *)
(* CustomChartDrawing of src/unnamed/part_000 (SpecCustom).  SpecRemap     *)
(* replays interval switches through loadDrawings, SpecProj projects      *)
(* points to the screen, SpecInput feeds pointer events to a chart with    *)
(* or without candles, SpecHit tests pixels against annotation bodies and  *)
(* SpecLife follows the manager from its constructor through destroy().    *)
(* SpecHook and SpecPersist follow the useDrawingManager hook.  SpecSelect *)
(* clicks in select mode on a Store of a line and a rectangle, SpecEdit    *)
(* selects, edits and deletes one stored line or rectangle, SpecSnap draws *)
(* and edits with the snapping modifier up to the right margin,            *)
(* SpecHandles tests pixels against annotation handles and SpecFrame       *)
(* compares the Store before and after each handler.                       *)
(*                                                                         *)
(* The host application is modelled beside the engines: SpecFeed follows   *)
(* the realtime candle series of App (initial fetch, candle events,        *)
(* history requests of ChartContainer), SpecWs one subscription of         *)
(* subscribeToRealtime with its two sockets, and SpecPlay (SpecPlayFair    *)
(* with the timeout firing) the usePlaybackController hook.                *)
(*                                                                         *)
(* Left out: the pixels painted on the canvas, the crosshair position      *)
(* (mouseScreenX/Y), the cursor style, the onToolChange notification and   *)
(* the colour picker.  The host is taken to have registered every          *)
(* callback; trace holds the callbacks invoked by the last handler.        *)
(***************************************************************************)
EXTENDS Integers, Sequences, FiniteSets, Bags, TLC

(***************************************************************************)
(* Bounds of the model and the fixed chart the manager is attached to.     *)
(***************************************************************************)
\* number of candles loaded into the chart
NumCandles == 2
\* pixels per bar reported by the time scale
ChartBarSpacing == 20
\* vertical distance in pixels between the two pointer rows
RowGap == 20

NoId == "none"
NoPoint == [none |-> TRUE]
NoX == -100000

Tools == {"none", "line", "fib", "rectangle"}
Intervals == {"1m", "5m", "15m", "1h", "4h", "1d"}
\* the interval under which the manager is constructed in the model
ManagerIntervals == {"1m"}
\* the tools the toolbar arms in the model
ToolbarTools == {"none", "line", "rectangle"}

Abs(n) == IF n < 0 THEN -n ELSE n
Min(a, b) == IF a <= b THEN a ELSE b
Max(a, b) == IF a >= b THEN a ELSE b
\* Math.round of the rational num/den (den > 0): floor(num/den + 1/2)
RoundDiv(num, den) == (2 * num + den) \div (2 * den)

(***************************************************************************)
(* Interval table                                                          *)
(***************************************************************************)
DefaultIntervalSeconds == 60

intervalSecondsMap ==
  [iv \in Intervals |->
     CASE iv = "1m" -> 60
       [] iv = "5m" -> 300
       [] iv = "15m" -> 900
       [] iv = "1h" -> 3600
       [] iv = "4h" -> 14400
       [] iv = "1d" -> 86400]

secondsForInterval(iv) ==
  IF iv \in DOMAIN intervalSecondsMap THEN intervalSecondsMap[iv] ELSE DefaultIntervalSeconds

(***************************************************************************)
(* Chart surface (lightweight-charts), as the manager sees it.  A chart is *)
(* a record: candles (ascending), spacing (bar spacing), width (canvas     *)
(* width in pixels), height (price pane height in pixels).  Bar i (from 1) *)
(* sits at x = (i-1) * spacing; y = height - price inside the pane.        *)
(* The time scale works in fractions of a pixel: a chart's x coordinates   *)
(* and its spacing are counted in units of 1/sub pixel, so that a bar      *)
(* spacing of half a pixel is spacing = 1 with sub = 2.                    *)
(***************************************************************************)
CandleAt(iv, i) ==
  [time |-> i * secondsForInterval(iv),
   open |-> RowGap, high |-> 2 * RowGap, low |-> RowGap \div 2, close |-> RowGap + RowGap \div 2]

MainChart(iv) ==
  [candles |-> [i \in 1..NumCandles |-> CandleAt(iv, i)],
   spacing |-> ChartBarSpacing,
   sub     |-> 1,
   width   |-> NumCandles * ChartBarSpacing,
   height  |-> 2 * RowGap]

\* timeScale.timeToCoordinate: the x of the bar with this time, else null
timeToCoordinate(chart, t) ==
  LET idx == {i \in DOMAIN chart.candles : chart.candles[i].time = t}
  IN IF idx = {} THEN NoX ELSE ((CHOOSE i \in idx : TRUE) - 1) * chart.spacing

\* timeScale.coordinateToTime: the time of the bar nearest to x, null outside the data
coordinateToTime(chart, x) ==
  LET i == RoundDiv(x, chart.spacing) + 1
  IN IF chart.spacing > 0 /\ i \in DOMAIN chart.candles THEN chart.candles[i].time ELSE -1

\* series.coordinateToPrice: null outside the pane
coordinateToPrice(chart, y) ==
  IF y >= 0 /\ y <= chart.height THEN chart.height - y ELSE -1

\* series.priceToCoordinate
priceToCoordinate(chart, p) == chart.height - p

DefaultBarSpacing == 6

\* the measured spacing if it is more than half a pixel, else 6 pixels
getBarSpacing(chart) ==
  IF 2 * chart.spacing > chart.sub THEN chart.spacing ELSE DefaultBarSpacing * chart.sub

getLastCandleTime(chart) ==
  IF Len(chart.candles) > 0 THEN chart.candles[Len(chart.candles)].time ELSE -1

\* the scan of findReferenceTimeLeft: hits are the pixels, from xStart down to 0,
\* that resolve to a time; the first one found is the largest
ReferenceFrom(chart, hits, lastTime, xr) ==
  IF hits # {}
    THEN [ok |-> TRUE, xRef |-> (CHOOSE v \in hits : \A w \in hits : w <= v) * chart.sub,
          tRef |-> coordinateToTime(chart, (CHOOSE v \in hits : \A w \in hits : w <= v) * chart.sub)]
    ELSE IF lastTime # -1 /\ xr # NoX
           THEN [ok |-> TRUE, xRef |-> xr, tRef |-> lastTime]
           ELSE [ok |-> FALSE, xRef |-> 0, tRef |-> 0]

\* {xRef, tRef} or null (ok = FALSE)
findReferenceTimeLeft(chart, xStart) ==
  ReferenceFrom(chart,
                {x \in 0..Min(xStart, Max(0, chart.width - 1)) :
                   coordinateToTime(chart, x * chart.sub) # -1},
                getLastCandleTime(chart),
                timeToCoordinate(chart, getLastCandleTime(chart)))

\* a mapping that gives a pixel without time and without reference bar the time 0
ChartPointAtZero(screenX, time, price, lastTime, xRef, ref, sec, spacing) ==
  IF price = -1 THEN NoPoint
  ELSE IF time = -1
    THEN IF lastTime # -1 /\ xRef # NoX
           THEN [time |-> lastTime + RoundDiv((screenX - xRef) * sec, spacing), price |-> price]
           ELSE IF ~ref.ok THEN [time |-> 0, price |-> price]
                ELSE [time |-> ref.tRef + RoundDiv((screenX - ref.xRef) * sec, spacing),
                      price |-> price]
    ELSE [time |-> time, price |-> price]

\* screenToChartPoint once the chart has been asked: time and price under the
\* pixel, the last candle and its x, the reference bar to the left
ChartPointFrom(screenX, time, price, lastTime, xRef, ref, sec, spacing) ==
  IF price = -1 THEN NoPoint
  ELSE IF time = -1
    THEN IF lastTime # -1 /\ xRef # NoX
           THEN [time |-> lastTime + RoundDiv((screenX - xRef) * sec, spacing), price |-> price]
           ELSE IF ~ref.ok THEN NoPoint
                ELSE [time |-> ref.tRef + RoundDiv((screenX - ref.xRef) * sec, spacing),
                      price |-> price]
    ELSE [time |-> time, price |-> price]

screenToChartPoint(chart, iv, screenX, screenY) ==
  ChartPointFrom(screenX * chart.sub,
                 coordinateToTime(chart, screenX * chart.sub),
                 coordinateToPrice(chart, screenY),
                 getLastCandleTime(chart),
                 timeToCoordinate(chart, getLastCandleTime(chart)),
                 findReferenceTimeLeft(chart, screenX),
                 secondsForInterval(iv),
                 getBarSpacing(chart))

RECURSIVE Gcd(_, _)
Gcd(a, b) == IF b = 0 THEN a ELSE Gcd(b, a % b)

\* the rational (xRef * sec + dt * spacing) / sec reduced by the common divisor g
Reduced(xRef, dt, sec, spacing, g) ==
  [ok |-> TRUE, num |-> xRef * (sec \div g) + (dt * spacing) \div g, den |-> sec \div g]

\* the rational xRef + (dt / sec) * spacing in lowest terms, as num/den with den > 0
Extrapolate(xRef, dt, sec, spacing) ==
  Reduced(xRef, dt, sec, spacing, Gcd(Abs(dt * spacing), sec))

\* timeToXWithFallback once the chart has been asked
XFrom(timeSec, x, lastTime, xr, ref, sec, spacing) ==
  IF x # NoX THEN [ok |-> TRUE, num |-> x, den |-> 1]
  ELSE IF lastTime # -1 /\ xr # NoX THEN Extrapolate(xr, timeSec - lastTime, sec, spacing)
  ELSE IF ~ref.ok THEN [ok |-> FALSE, num |-> 0, den |-> 1]
  ELSE Extrapolate(ref.xRef, timeSec - ref.tRef, sec, spacing)

\* the coordinate x.num / x.den, counted in 1/sub pixel, as pixels in lowest terms
PixelsBy(x, sub, g) ==
  [ok |-> x.ok, num |-> x.num \div g, den |-> (x.den * sub) \div g]

InPixels(x, sub) == PixelsBy(x, sub, Gcd(Abs(x.num), x.den * sub))

\* x is returned in pixels as a rational num/den (den > 0): an extrapolated x
\* need not be whole
timeToXWithFallback(chart, iv, timeSec) ==
  InPixels(XFrom(timeSec,
                 timeToCoordinate(chart, timeSec),
                 getLastCandleTime(chart),
                 timeToCoordinate(chart, getLastCandleTime(chart)),
                 findReferenceTimeLeft(chart, chart.width - 1),
                 secondsForInterval(iv),
                 getBarSpacing(chart)),
           chart.sub)

\* the screen point of p given its x: {x, y} scaled by den, (xn/den, yn/den)
ScreenPointAt(x, y) ==
  IF ~x.ok THEN [ok |-> FALSE, xn |-> 0, yn |-> 0, den |-> 1]
  ELSE [ok |-> TRUE, xn |-> x.num, yn |-> y * x.den, den |-> x.den]

chartToScreenPoint(chart, iv, p) ==
  ScreenPointAt(timeToXWithFallback(chart, iv, p.time), priceToCoordinate(chart, p.price))

(***************************************************************************)
(* OHLC snapping                                                           *)
(***************************************************************************)
\* the binary search of snapPointToOHLC: the value of hi when the loop ends
RECURSIVE SnapSearch(_, _, _, _)
SnapSearch(arr, lo, hi, t) ==
  IF lo > hi THEN hi
  ELSE LET mid == (lo + hi) \div 2
       IN IF arr[mid + 1].time = t THEN mid
          ELSE IF arr[mid + 1].time < t THEN SnapSearch(arr, mid + 1, hi, t)
          ELSE SnapSearch(arr, lo, mid - 1, t)

\* the candidate of cands (in order) nearest to price; the first wins a tie
RECURSIVE NearestOf(_, _, _, _)
NearestOf(cands, i, best, price) ==
  IF i > Len(cands) THEN best
  ELSE NearestOf(cands, i + 1,
                 IF Abs(cands[i] - price) < Abs(best - price) THEN cands[i] ELSE best, price)

\* the snapped point on candle c: its time, and the nearest of open, high, low, close
SnapTo(c, price) ==
  [time |-> c.time, price |-> NearestOf(<<c.open, c.high, c.low, c.close>>, 2, c.open, price)]

\* a choice of the candle after the one the binary search ended on
SnapIndexNext(arr, hi) == Max(0, Min(Len(arr) - 1, hi + 1))

\* the candle index chosen from hi, the result of the binary search
SnapIndex(arr, hi) == Max(0, Min(Len(arr) - 1, IF hi >= 0 THEN hi ELSE 0))

snapPointToOHLC(chart, point) ==
  IF Len(chart.candles) = 0 THEN point
  ELSE SnapTo(chart.candles[SnapIndex(chart.candles,
                                      SnapSearch(chart.candles, 0, Len(chart.candles) - 1, point.time)) + 1],
              point.price)

(***************************************************************************)
(* Interval remapper                                                       *)
(***************************************************************************)
\* a mapping that also snaps when the two bar lengths are equal
mapTimeSnapsEqual(timeSec, from, to, isEnd) ==
  IF secondsForInterval(from) <= secondsForInterval(to)
    THEN (timeSec \div secondsForInterval(to)) * secondsForInterval(to)
    ELSE IF ~isEnd
      THEN (timeSec \div secondsForInterval(from)) * secondsForInterval(from)
      ELSE (timeSec \div secondsForInterval(from)) * secondsForInterval(from)
             + (secondsForInterval(from) - secondsForInterval(to))

\* a mapping that, going to a coarser interval, sends the end handle to the last
\* bar of the source interval inside the coarser bucket
mapTimeCoarseEndLast(timeSec, from, to, isEnd) ==
  IF from = to THEN timeSec
  ELSE IF secondsForInterval(from) < secondsForInterval(to)
    THEN IF ~isEnd
           THEN (timeSec \div secondsForInterval(to)) * secondsForInterval(to)
           ELSE (timeSec \div secondsForInterval(to)) * secondsForInterval(to)
                  + (secondsForInterval(to) - secondsForInterval(from))
  ELSE IF secondsForInterval(from) > secondsForInterval(to)
    THEN IF ~isEnd
           THEN (timeSec \div secondsForInterval(from)) * secondsForInterval(from)
           ELSE (timeSec \div secondsForInterval(from)) * secondsForInterval(from)
                  + (secondsForInterval(from) - secondsForInterval(to))
  ELSE timeSec

\* a mapping that sends the end of a finer drawing to the start of its bar as well
mapTimeStartOnly(timeSec, from, to, isEnd) ==
  IF from = to THEN timeSec
  ELSE IF secondsForInterval(from) < secondsForInterval(to)
    THEN (timeSec \div secondsForInterval(to)) * secondsForInterval(to)
    ELSE (timeSec \div secondsForInterval(from)) * secondsForInterval(from)

mapTimeAcrossIntervals(timeSec, from, to, isEnd) ==
  LET fromSec == secondsForInterval(from)
      toSec == secondsForInterval(to)
      blockStart == (timeSec \div fromSec) * fromSec
  IN IF from = to THEN timeSec
     ELSE IF fromSec < toSec THEN (timeSec \div toSec) * toSec
     ELSE IF fromSec > toSec
       THEN IF ~isEnd THEN blockStart ELSE blockStart + (fromSec - toSec)
     ELSE timeSec

\* A drawing record: id, tool, interval, points, color and the optional
\* properties.basePoints / properties.baseInterval (hasBase tells whether present).
NoBaseInterval == "none"

BasePointsOf(d) == IF d.hasBase THEN d.basePoints ELSE d.points
BaseIntervalOf(d) == IF d.hasBase THEN d.baseInterval ELSE d.interval

\* a transform that maps the points last displayed instead of the retained base
transformFromDisplayed(d, toIv) ==
  [d EXCEPT
     !.interval = toIv,
     !.points = << [time  |-> mapTimeAcrossIntervals(d.points[1].time, d.interval, toIv, FALSE),
                    price |-> d.points[1].price],
                   [time  |-> mapTimeAcrossIntervals(d.points[2].time, d.interval, toIv, TRUE),
                    price |-> d.points[2].price] >>,
     !.hasBase = TRUE,
     !.basePoints = d.points,
     !.baseInterval = d.interval]

\* a transform that maps both points as start handles
transformBothAsStart(d, toIv) ==
  [d EXCEPT
     !.interval = toIv,
     !.points = << [time  |-> mapTimeAcrossIntervals(BasePointsOf(d)[1].time, BaseIntervalOf(d), toIv, FALSE),
                    price |-> BasePointsOf(d)[1].price],
                   [time  |-> mapTimeAcrossIntervals(BasePointsOf(d)[2].time, BaseIntervalOf(d), toIv, FALSE),
                    price |-> BasePointsOf(d)[2].price] >>,
     !.hasBase = TRUE,
     !.basePoints = BasePointsOf(d),
     !.baseInterval = BaseIntervalOf(d)]

\* a transform that records the mapped points as the new base
transformRebasing(d, toIv) ==
  [d EXCEPT
     !.interval = toIv,
     !.points = << [time  |-> mapTimeAcrossIntervals(BasePointsOf(d)[1].time, BaseIntervalOf(d), toIv, FALSE),
                    price |-> BasePointsOf(d)[1].price],
                   [time  |-> mapTimeAcrossIntervals(BasePointsOf(d)[2].time, BaseIntervalOf(d), toIv, TRUE),
                    price |-> BasePointsOf(d)[2].price] >>,
     !.hasBase = TRUE,
     !.basePoints = << [time  |-> mapTimeAcrossIntervals(BasePointsOf(d)[1].time, BaseIntervalOf(d), toIv, FALSE),
                        price |-> BasePointsOf(d)[1].price],
                       [time  |-> mapTimeAcrossIntervals(BasePointsOf(d)[2].time, BaseIntervalOf(d), toIv, TRUE),
                        price |-> BasePointsOf(d)[2].price] >>,
     !.baseInterval = toIv]

transformDrawingForCurrentInterval(d, toIv) ==
  LET basePoints == BasePointsOf(d)
      baseInterval == BaseIntervalOf(d)
  IN IF Len(basePoints) < 2 THEN [d EXCEPT !.interval = toIv]
     ELSE [d EXCEPT
             !.interval = toIv,
             !.points = << [time  |-> mapTimeAcrossIntervals(basePoints[1].time, baseInterval, toIv, FALSE),
                            price |-> basePoints[1].price],
                           [time  |-> mapTimeAcrossIntervals(basePoints[2].time, baseInterval, toIv, TRUE),
                            price |-> basePoints[2].price] >>,
             !.hasBase = TRUE,
             !.basePoints = basePoints,
             !.baseInterval = baseInterval]

(***************************************************************************)
(* Hit tester.  The two projected end points of a drawing are brought to a *)
(* common denominator D; squared distances are then in units of 1/D^2.     *)
(***************************************************************************)
HandleThreshold == 8
ShapeThreshold == 6

\* two projected end points and the pixel (sx, sy), all scaled by D = p1.den * p2.den
ProjectedFrom(p1, p2, sx, sy) ==
  [ok |-> p1.ok /\ p2.ok, D |-> p1.den * p2.den,
   x1 |-> p1.xn * p2.den, y1 |-> p1.yn * p2.den,
   x2 |-> p2.xn * p1.den, y2 |-> p2.yn * p1.den,
   px |-> sx * p1.den * p2.den, py |-> sy * p1.den * p2.den]

\* both end points of d on screen, and the pixel (sx, sy), all scaled by D
Projected(chart, iv, d, sx, sy) ==
  ProjectedFrom(chartToScreenPoint(chart, iv, d.points[1]),
                chartToScreenPoint(chart, iv, d.points[2]), sx, sy)

SqDist(ax, ay, bx, by) == (ax - bx) * (ax - bx) + (ay - by) * (ay - by)

\* distanceToSegment from the dot products c1 = v.w and c2 = v.v
SegmentDistance(px, py, x1, y1, x2, y2, c1, c2) ==
  IF c1 <= 0 THEN [num |-> SqDist(px, py, x1, y1), den |-> 1]
  ELSE IF c2 <= c1 THEN [num |-> SqDist(px, py, x2, y2), den |-> 1]
  ELSE [num |-> SqDist(px, py, x1, y1) * c2 - c1 * c1, den |-> c2]

\* the square of distanceToSegment, as the rational num/den
distanceToSegment(px, py, x1, y1, x2, y2) ==
  SegmentDistance(px, py, x1, y1, x2, y2,
                  (x2 - x1) * (px - x1) + (y2 - y1) * (py - y1),
                  (x2 - x1) * (x2 - x1) + (y2 - y1) * (y2 - y1))

\* a candidate that is taken only when none has been kept yet
FirstKept(num, den, best) == best.id = NoId

\* best is a candidate [id, handle, num, den] at squared distance num/den; id is null at first
Closer(num, den, best) == best.id = NoId \/ num * best.den < best.num * den

\* the start handle, the end handle, and for a line the segment fallback
StartTest(d, d1, D2, best) ==
  IF d1 <= HandleThreshold * HandleThreshold * D2 /\ Closer(d1, D2, best)
    THEN [id |-> d.id, handle |-> "start", num |-> d1, den |-> D2] ELSE best

EndTest(d, d2, D2, best) ==
  IF d2 <= HandleThreshold * HandleThreshold * D2 /\ Closer(d2, D2, best)
    THEN [id |-> d.id, handle |-> "end", num |-> d2, den |-> D2] ELSE best

SegmentTest(d, d1, d2, D2, seg, best) ==
  IF /\ d.tool = "line"
     /\ seg.num <= HandleThreshold * HandleThreshold * D2 * seg.den
     /\ Closer(Min(d1, d2), D2, best)
    THEN [id |-> d.id, handle |-> IF d1 <= d2 THEN "start" ELSE "end",
          num |-> Min(d1, d2), den |-> D2]
    ELSE best

\* one iteration of the loop of hitTestHandles, on the projection g of d
HandleBest(d, g, best0) ==
  IF ~g.ok THEN best0
  ELSE SegmentTest(d, SqDist(g.x1, g.y1, g.px, g.py), SqDist(g.x2, g.y2, g.px, g.py), g.D * g.D,
                   distanceToSegment(g.px, g.py, g.x1, g.y1, g.x2, g.y2),
                   EndTest(d, SqDist(g.x2, g.y2, g.px, g.py), g.D * g.D,
                           StartTest(d, SqDist(g.x1, g.y1, g.px, g.py), g.D * g.D, best0)))

HandleCandidates(chart, iv, d, sx, sy, best0) ==
  IF Len(d.points) < 2 THEN best0 ELSE HandleBest(d, Projected(chart, iv, d, sx, sy), best0)

RECURSIVE HitHandlesFrom(_, _, _, _, _, _, _)
HitHandlesFrom(chart, iv, ds, i, sx, sy, best) ==
  IF i > Len(ds) THEN best
  ELSE HitHandlesFrom(chart, iv, ds, i + 1, sx, sy, HandleCandidates(chart, iv, ds[i], sx, sy, best))

NoHit == [id |-> NoId, handle |-> "none"]

HitOf(best) == [id |-> best.id, handle |-> best.handle]

hitTestHandles(chart, iv, ds, sx, sy) ==
  HitOf(HitHandlesFrom(chart, iv, ds, 1, sx, sy, [id |-> NoId, handle |-> "none", num |-> 0, den |-> 1]))

\* a body test whose threshold is one pixel wider
ShapeHitWide(d, g, seg) ==
  /\ g.ok
  /\ \/ d.tool = "line"
        /\ seg.num <= (ShapeThreshold + 1) * (ShapeThreshold + 1) * g.D * g.D * seg.den
     \/ /\ d.tool = "rectangle"
        /\ g.px >= Min(g.x1, g.x2) - (ShapeThreshold + 1) * g.D
        /\ g.px <= Max(g.x1, g.x2) + (ShapeThreshold + 1) * g.D
        /\ g.py >= Min(g.y1, g.y2) - (ShapeThreshold + 1) * g.D
        /\ g.py <= Max(g.y1, g.y2) + (ShapeThreshold + 1) * g.D

\* one iteration of the loop of hitTestShape, on the projection g of d
ShapeHitAt(d, g, seg) ==
  /\ g.ok
  /\ \/ d.tool = "line" /\ seg.num <= ShapeThreshold * ShapeThreshold * g.D * g.D * seg.den
     \/ /\ d.tool = "rectangle"
        /\ g.px >= Min(g.x1, g.x2) - ShapeThreshold * g.D
        /\ g.px <= Max(g.x1, g.x2) + ShapeThreshold * g.D
        /\ g.py >= Min(g.y1, g.y2) - ShapeThreshold * g.D
        /\ g.py <= Max(g.y1, g.y2) + ShapeThreshold * g.D

SegmentOf(g) == distanceToSegment(g.px, g.py, g.x1, g.y1, g.x2, g.y2)

ShapeHit(chart, iv, d, sx, sy) ==
  /\ Len(d.points) >= 2
  /\ ShapeHitAt(d, Projected(chart, iv, d, sx, sy), SegmentOf(Projected(chart, iv, d, sx, sy)))

\* the id of the first drawing (in Map order) whose body is hit, else null
hitTestShape(chart, iv, ds, sx, sy) ==
  LET hits == {i \in 1..Len(ds) : ShapeHit(chart, iv, ds[i], sx, sy)}
  IN IF hits = {} THEN NoId ELSE ds[CHOOSE i \in hits : \A j \in hits : i <= j].id

(***************************************************************************)
(* The drawings Map, kept as a sequence in insertion order.                *)
(***************************************************************************)
StoreIds(ds) == {ds[i].id : i \in 1..Len(ds)}
StoreHas(ds, id) == id \in StoreIds(ds)
StoreGet(ds, id) == ds[CHOOSE i \in 1..Len(ds) : ds[i].id = id]
\* a set that puts the record at the end of the Map and resets the colour of the rest
StoreSetLast(ds, id, rec) ==
  Append([i \in 1..Len(SelectSeq(ds, LAMBDA d : d.id # id)) |->
            [SelectSeq(ds, LAMBDA d : d.id # id)[i] EXCEPT !.color = "#000000"]], rec)

\* Map.set: replaces in place, or appends
StoreSet(ds, id, rec) ==
  IF StoreHas(ds, id)
    THEN [i \in 1..Len(ds) |-> IF ds[i].id = id THEN rec ELSE ds[i]]
    ELSE Append(ds, rec)
\* a delete whose filter is inverted: it keeps the drawing it should drop
StoreDeleteInverted(ds, id) == SelectSeq(ds, LAMBDA d : d.id = id)

\* Map.delete
StoreDelete(ds, id) == SelectSeq(ds, LAMBDA d : d.id # id)

RECURSIVE LoadFrom(_, _, _, _)
LoadFrom(list, i, acc, iv) ==
  IF i > Len(list) THEN acc
  ELSE LoadFrom(list, i + 1,
                IF list[i].id # NoId
                  THEN StoreSet(acc, list[i].id, transformDrawingForCurrentInterval(list[i], iv))
                  ELSE acc,
                iv)

loadDrawings(list, iv) == LoadFrom(list, 1, <<>>, iv)

DefaultColor == "#22aa6a"

\* a createDrawing that orders the two points by time instead of by click
createDrawingSorted(id, tool, iv, p1, p2) ==
  [id |-> id, tool |-> tool, interval |-> iv,
   points |-> IF p1.time <= p2.time THEN <<p1, p2>> ELSE <<p2, p1>>,
   color |-> DefaultColor,
   hasBase |-> TRUE,
   basePoints |-> IF p1.time <= p2.time THEN <<p1, p2>> ELSE <<p2, p1>>,
   baseInterval |-> iv]

createDrawing(id, tool, iv, p1, p2) ==
  [id |-> id, tool |-> tool, interval |-> iv,
   points |-> << [time |-> p1.time, price |-> p1.price], [time |-> p2.time, price |-> p2.price] >>,
   color |-> DefaultColor,
   hasBase |-> TRUE,
   basePoints |-> << [time |-> p1.time, price |-> p1.price], [time |-> p2.time, price |-> p2.price] >>,
   baseInterval |-> iv]

\* 1 / 0.00001, the price epsilon of the degenerate-gesture test
EpsilonInverse == 100000

IsDegenerate(startP, endP) ==
  /\ Abs(endP.time - startP.time) < 1
  /\ Abs(endP.price - startP.price) * EpsilonInverse < 1

(***************************************************************************)
(* Inputs of the model                                                     *)
(***************************************************************************)
\* ids the id generator of createDrawing may produce (Date.now() plus a random suffix)
NewIds == {"new1"}

\* what the host can pass to loadDrawings: a line authored under the active interval
HostLine(iv) ==
  [id |-> "d1", tool |-> "line", interval |-> iv,
   points |-> << [time |-> secondsForInterval(iv), price |-> 2 * RowGap],
                 [time |-> 2 * secondsForInterval(iv), price |-> RowGap] >>,
   color |-> DefaultColor, hasBase |-> TRUE,
   basePoints |-> << [time |-> secondsForInterval(iv), price |-> 2 * RowGap],
                     [time |-> 2 * secondsForInterval(iv), price |-> RowGap] >>,
   baseInterval |-> iv]

HostLists(iv) == { <<>>, <<HostLine(iv)>> }

\* MouseEventParams.point of a chart event: absent, or a pixel
NoPointer == [has |-> FALSE, x |-> 0, y |-> 0]
\* the pixels of the first two bars on the two pointer rows, and a pixel above the pane
PointerEvents ==
  {[has |-> TRUE, x |-> i * ChartBarSpacing, y |-> j * RowGap] : i \in {0, 1}, j \in {0, 1}}
    \cup {NoPointer, [has |-> TRUE, x |-> 0, y |-> -1]}

Keys == {"Delete", "Backspace", "a"}

(***************************************************************************)
(* ChartDrawingManager                                                     *)
(***************************************************************************)
VARIABLES
  interval,           \* this.interval
  drawings,           \* this.drawings
  isDrawing,          \* this.isDrawing
  startPoint,         \* this.startPoint
  currentMousePoint,  \* this.currentMousePoint
  currentTool,        \* this.currentTool
  selectedId,         \* this.selectedId
  isEditing,          \* this.isEditing
  editingHandle,      \* this.editingHandle
  metaDown,           \* this.metaDown
  shiftDown,          \* this.shiftDown
  popupVisible,       \* colorPopupEl is displayed
  trace               \* what the last handler called back: completion, update, remove, selection

mgrVars == <<interval, drawings, isDrawing, startPoint, currentMousePoint, currentTool,
             selectedId, isEditing, editingHandle, metaDown, shiftDown, popupVisible, trace>>

VARIABLES
  candlesLoaded,      \* the chart and the manager were given candles
  unmapped            \* the last handler was a click or a move with a tool armed on a
                      \* pixel that has no chart point

chartVars == <<candlesLoaded, unmapped>>

\* the chart before any candle has arrived: no bar, no visible logical range
EmptyChart(iv) ==
  [candles |-> <<>>,
   spacing |-> 0,
   sub     |-> 1,
   width   |-> NumCandles * ChartBarSpacing,
   height  |-> 2 * RowGap]

Chart == IF candlesLoaded THEN MainChart(interval) ELSE EmptyChart(interval)

\* the manager is attached to a chart with candles
ChartIdle ==
  /\ candlesLoaded = TRUE
  /\ unmapped = FALSE

\* the manager is attached to a chart with or without candles
ChartInit ==
  /\ candlesLoaded \in BOOLEAN
  /\ unmapped = FALSE

\* the pixel has no price, or it has no time and neither the last candle nor the
\* scan to the left gives a reference
Unmappable(chart, x, y) ==
  \/ coordinateToPrice(chart, y) = -1
  \/ /\ coordinateToTime(chart, x * chart.sub) = -1
     /\ ~(getLastCandleTime(chart) # -1 /\ timeToCoordinate(chart, getLastCandleTime(chart)) # NoX)
     /\ ~findReferenceTimeLeft(chart, x).ok

MgrInit ==
  /\ interval \in ManagerIntervals
  /\ drawings = <<>>
  /\ isDrawing = FALSE
  /\ startPoint = NoPoint
  /\ currentMousePoint = NoPoint
  /\ currentTool = "none"
  /\ selectedId = NoId
  /\ isEditing = FALSE
  /\ editingHandle = "none"
  /\ metaDown = FALSE
  /\ shiftDown = FALSE
  /\ popupVisible = FALSE
  /\ trace = <<>>

CallComplete(d) == [cb |-> "onDrawingComplete", drawing |-> d]
CallUpdated(d) == [cb |-> "onDrawingUpdated", drawing |-> d]
CallRemove(id) == [cb |-> "onRemoveDrawing", id |-> id]
CallSelection(id) == [cb |-> "onSelectionChange", id |-> id]

setTool(tool) ==
  /\ currentTool' = tool

SetTool(tool) ==
  /\ setTool(tool)
  /\ trace' = <<>>
  /\ UNCHANGED <<interval, drawings, isDrawing, startPoint, currentMousePoint,
                 selectedId, isEditing, editingHandle, metaDown, shiftDown, popupVisible>>

LoadDrawings(list) ==
  /\ drawings' = loadDrawings(list, interval)
  /\ trace' = <<>>
  /\ UNCHANGED <<interval, isDrawing, startPoint, currentMousePoint, currentTool,
                 selectedId, isEditing, editingHandle, metaDown, shiftDown, popupVisible>>

RemoveDrawing(id) ==
  /\ drawings' = StoreDelete(drawings, id)
  /\ trace' = <<>>
  /\ UNCHANGED <<interval, isDrawing, startPoint, currentMousePoint, currentTool,
                 selectedId, isEditing, editingHandle, metaDown, shiftDown, popupVisible>>

clearAll(ds) == <<>>

ClearAll ==
  /\ drawings' = clearAll(drawings)
  /\ trace' = <<>>
  /\ UNCHANGED <<interval, isDrawing, startPoint, currentMousePoint, currentTool,
                 selectedId, isEditing, editingHandle, metaDown, shiftDown, popupVisible>>

\* the delete of the selected drawing, shared by the key handler and the popup button
DeleteSelected ==
  /\ drawings' = StoreDelete(drawings, selectedId)
  /\ trace' = <<CallRemove(selectedId), CallSelection(NoId)>>
  /\ selectedId' = NoId
  /\ isEditing' = FALSE
  /\ editingHandle' = "none"
  /\ popupVisible' = FALSE

\* the key handler deletes only in select mode
KeyDeletes(key) ==
  currentTool = "none" /\ selectedId # NoId /\ key \in {"Delete", "Backspace"}

KeyDown(meta, shift, key) ==
  /\ metaDown' = meta
  /\ shiftDown' = shift
  /\ IF KeyDeletes(key)
       THEN DeleteSelected
       ELSE /\ trace' = <<>>
            /\ UNCHANGED <<drawings, selectedId, isEditing, editingHandle, popupVisible>>
  /\ UNCHANGED <<interval, isDrawing, startPoint, currentMousePoint, currentTool>>

KeyUp(meta, shift) ==
  /\ metaDown' = meta
  /\ shiftDown' = shift
  /\ trace' = <<>>
  /\ UNCHANGED <<interval, drawings, isDrawing, startPoint, currentMousePoint, currentTool,
                 selectedId, isEditing, editingHandle, popupVisible>>

Blur ==
  /\ metaDown' = FALSE
  /\ shiftDown' = FALSE
  /\ trace' = <<>>
  /\ UNCHANGED <<interval, drawings, isDrawing, startPoint, currentMousePoint, currentTool,
                 selectedId, isEditing, editingHandle, popupVisible>>

\* the delete button of the colour popup; it can be clicked while the popup shows
DeleteButtonClick ==
  /\ popupVisible
  /\ IF selectedId = NoId
       THEN /\ trace' = <<>>
            /\ UNCHANGED <<drawings, selectedId, isEditing, editingHandle, popupVisible>>
       ELSE DeleteSelected
  /\ UNCHANGED <<interval, isDrawing, startPoint, currentMousePoint, currentTool, metaDown, shiftDown>>

\* the close button of the colour popup
CloseButtonClick ==
  /\ popupVisible
  /\ popupVisible' = FALSE
  /\ trace' = <<>>
  /\ UNCHANGED <<interval, drawings, isDrawing, startPoint, currentMousePoint, currentTool,
                 selectedId, isEditing, editingHandle, metaDown, shiftDown>>

\* the point of a pointer event, after optional OHLC snapping
Snapped(raw) ==
  IF raw = NoPoint THEN NoPoint
  ELSE IF metaDown THEN snapPointToOHLC(Chart, raw) ELSE raw

PointerPoint(pt) == Snapped(screenToChartPoint(Chart, interval, pt.x, pt.y))

\* the end point of the gesture: the line tool with shift held keeps the start price
EndPointOf(chartPoint) ==
  IF currentTool = "line" /\ shiftDown
    THEN [time |-> chartPoint.time, price |-> startPoint.price]
    ELSE chartPoint

\* a select-mode click that starts editing with the click that selects
SelectAndEdit(hit, bodyId) ==
     IF hit.id # NoId
       THEN /\ selectedId' = hit.id
            /\ IF selectedId = hit.id /\ isEditing /\ editingHandle = hit.handle
                 THEN isEditing' = FALSE /\ editingHandle' = "none"
                 ELSE isEditing' = TRUE /\ editingHandle' = hit.handle
            /\ trace' = <<CallSelection(hit.id)>>
            /\ popupVisible' = TRUE
       ELSE /\ selectedId' = bodyId
            /\ isEditing' = FALSE
            /\ editingHandle' = "none"
            /\ trace' = <<CallSelection(bodyId)>>
            /\ popupVisible' = (bodyId # NoId)

\* a select step whose empty branch leaves the selection alone
SelectKeepSelection(hit, bodyId) ==
     IF hit.id # NoId
       THEN /\ IF selectedId # hit.id
                 THEN /\ selectedId' = hit.id
                      /\ isEditing' = FALSE
                      /\ editingHandle' = "none"
                 ELSE /\ selectedId' = selectedId
                      /\ IF isEditing /\ editingHandle = hit.handle
                           THEN isEditing' = FALSE /\ editingHandle' = "none"
                           ELSE isEditing' = TRUE /\ editingHandle' = hit.handle
            /\ trace' = <<CallSelection(selectedId')>>
            /\ popupVisible' = TRUE
       ELSE /\ selectedId' = IF bodyId # NoId THEN bodyId ELSE selectedId
            /\ isEditing' = FALSE
            /\ editingHandle' = "none"
            /\ trace' = <<CallSelection(selectedId')>>
            /\ popupVisible' = (selectedId' # NoId)

\* a select step whose body and empty branches leave the editing state alone
SelectKeepEditing(hit, bodyId) ==
     IF hit.id # NoId
       THEN /\ IF selectedId # hit.id
                 THEN /\ selectedId' = hit.id
                      /\ isEditing' = FALSE
                      /\ editingHandle' = "none"
                 ELSE /\ selectedId' = selectedId
                      /\ IF isEditing /\ editingHandle = hit.handle
                           THEN isEditing' = FALSE /\ editingHandle' = "none"
                           ELSE isEditing' = TRUE /\ editingHandle' = hit.handle
            /\ trace' = <<CallSelection(selectedId')>>
            /\ popupVisible' = TRUE
       ELSE /\ selectedId' = bodyId
            /\ UNCHANGED <<isEditing, editingHandle>>
            /\ trace' = <<CallSelection(bodyId)>>
            /\ popupVisible' = (bodyId # NoId)

\* onChartClick with currentTool = none: select, toggle editing, or clear the selection
SelectAt(hit, bodyId) ==
     IF hit.id # NoId
       THEN /\ IF selectedId # hit.id
                 THEN /\ selectedId' = hit.id
                      /\ isEditing' = FALSE
                      /\ editingHandle' = "none"
                 ELSE /\ selectedId' = selectedId
                      /\ IF isEditing /\ editingHandle = hit.handle
                           THEN isEditing' = FALSE /\ editingHandle' = "none"
                           ELSE isEditing' = TRUE /\ editingHandle' = hit.handle
            /\ trace' = <<CallSelection(selectedId')>>
            /\ popupVisible' = TRUE
       ELSE IF bodyId # NoId
         THEN /\ selectedId' = bodyId
              /\ isEditing' = FALSE
              /\ editingHandle' = "none"
              /\ trace' = <<CallSelection(bodyId)>>
              /\ popupVisible' = TRUE
         ELSE /\ selectedId' = NoId
              /\ isEditing' = FALSE
              /\ editingHandle' = "none"
              /\ trace' = <<CallSelection(NoId)>>
              /\ popupVisible' = FALSE

ClickSelect(pt) ==
  SelectAt(hitTestHandles(Chart, interval, drawings, pt.x, pt.y),
           hitTestShape(Chart, interval, drawings, pt.x, pt.y))

\* onChartClick with a tool armed: first click starts the gesture, second one ends it
DrawAt(chartPoint, endChartPoint) ==
     IF chartPoint = NoPoint
       THEN /\ trace' = <<>>
            /\ UNCHANGED <<isDrawing, startPoint, currentMousePoint, currentTool>>
     ELSE IF ~isDrawing
       THEN /\ isDrawing' = TRUE
            /\ startPoint' = chartPoint
            /\ currentMousePoint' = chartPoint
            /\ trace' = <<>>
            /\ UNCHANGED currentTool
     ELSE IF startPoint = NoPoint
       THEN /\ trace' = <<>>
            /\ UNCHANGED <<isDrawing, startPoint, currentMousePoint, currentTool>>
     ELSE IF IsDegenerate(startPoint, endChartPoint)
       THEN /\ isDrawing' = FALSE
            /\ startPoint' = NoPoint
            /\ currentMousePoint' = NoPoint
            /\ trace' = <<>>
            /\ UNCHANGED currentTool
     ELSE /\ \E id \in NewIds :
               trace' = <<CallComplete(createDrawing(id, currentTool, interval, startPoint, endChartPoint))>>
          /\ isDrawing' = FALSE
          /\ startPoint' = NoPoint
          /\ currentMousePoint' = NoPoint
          /\ setTool("none")

ClickDraw(pt) == DrawAt(PointerPoint(pt), EndPointOf(PointerPoint(pt)))

OnChartClick(pt) ==
  /\ IF ~pt.has
       THEN /\ trace' = <<>>
            /\ UNCHANGED <<isDrawing, startPoint, currentMousePoint, currentTool,
                           selectedId, isEditing, editingHandle, popupVisible>>
       ELSE IF currentTool = "none"
         THEN /\ ClickSelect(pt)
              /\ UNCHANGED <<isDrawing, startPoint, currentMousePoint, currentTool>>
         ELSE /\ ClickDraw(pt)
              /\ UNCHANGED <<selectedId, isEditing, editingHandle, popupVisible>>
  /\ UNCHANGED <<interval, drawings, metaDown, shiftDown>>

\* onChartDblClick: select the hit drawing and show the popup at the pointer
DblClickAt(pt, hit, id) ==
     /\ IF ~pt.has \/ currentTool # "none" \/ id = NoId
          THEN /\ trace' = <<>>
               /\ UNCHANGED <<selectedId, isEditing, editingHandle, popupVisible>>
          ELSE /\ selectedId' = id
               /\ isEditing' = FALSE
               /\ editingHandle' = hit.handle
               /\ trace' = <<CallSelection(id)>>
               /\ popupVisible' = TRUE
     /\ UNCHANGED <<interval, drawings, isDrawing, startPoint, currentMousePoint, currentTool,
                    metaDown, shiftDown>>

\* the drawing under the pointer: a handle hit first, else a body hit
DblClickTarget(pt, hit) ==
  IF hit.id # NoId THEN hit.id ELSE hitTestShape(Chart, interval, drawings, pt.x, pt.y)

OnChartDblClick(pt) ==
  DblClickAt(pt, hitTestHandles(Chart, interval, drawings, pt.x, pt.y),
             DblClickTarget(pt, hitTestHandles(Chart, interval, drawings, pt.x, pt.y)))

\* an edit that leaves the base of the drawing where it was
WithPointsKeepBase(d, newPoints) ==
  [d EXCEPT !.points = newPoints]

\* the drawing d with the edited handle moved to chartPoint, re-based on the active interval
WithPoints(d, newPoints) ==
  [d EXCEPT !.points = newPoints, !.hasBase = TRUE,
            !.baseInterval = interval, !.basePoints = newPoints]

\* the edited point: a line with shift held keeps the price of its other end
LockedPoint(d, otherIdx, chartPoint) ==
  IF shiftDown /\ d.tool = "line"
    THEN [time |-> chartPoint.time, price |-> d.points[otherIdx].price]
    ELSE [time |-> chartPoint.time, price |-> chartPoint.price]

EditedDrawing(d, handle, chartPoint) ==
  IF handle = "start"
    THEN WithPoints(d, [d.points EXCEPT ![1] = LockedPoint(d, 2, chartPoint)])
    ELSE WithPoints(d, [d.points EXCEPT ![2] = LockedPoint(d, 1, chartPoint)])

\* the preview point: the line tool with shift held keeps the start price
PreviewPoint(chartPoint) ==
  IF isDrawing /\ currentTool = "line" /\ startPoint # NoPoint /\ shiftDown
    THEN [time |-> chartPoint.time, price |-> startPoint.price]
    ELSE chartPoint

\* the editing branch of onChartMove: store the edited drawing and report it
StoreEdited(updated) ==
  /\ drawings' = StoreSet(drawings, updated.id, updated)
  /\ trace' = <<CallUpdated(updated)>>
  /\ UNCHANGED currentMousePoint

\* onChartMove takes the editing branch
EditingMove ==
  currentTool = "none" /\ isEditing /\ selectedId # NoId /\ editingHandle # "none"

\* a move whose editing branch stores the edited drawing without looking for it first
MoveAtUnguarded(pt, chartPoint) ==
     /\ IF ~pt.has \/ chartPoint = NoPoint
          THEN /\ trace' = <<>>
               /\ UNCHANGED <<drawings, currentMousePoint>>
          ELSE IF EditingMove
            THEN StoreEdited(EditedDrawing(IF StoreHas(drawings, selectedId)
                                             THEN StoreGet(drawings, selectedId)
                                             ELSE [HostLine(interval) EXCEPT !.id = selectedId],
                                           editingHandle, chartPoint))
            ELSE /\ currentMousePoint' = PreviewPoint(chartPoint)
                 /\ trace' = <<>>
                 /\ UNCHANGED drawings
     /\ UNCHANGED <<interval, isDrawing, startPoint, currentTool, selectedId, isEditing,
                    editingHandle, metaDown, shiftDown, popupVisible>>

MoveAt(pt, chartPoint) ==
     /\ IF ~pt.has \/ chartPoint = NoPoint \/ (EditingMove /\ ~StoreHas(drawings, selectedId))
          THEN /\ trace' = <<>>
               /\ UNCHANGED <<drawings, currentMousePoint>>
          ELSE IF EditingMove
            THEN StoreEdited(EditedDrawing(StoreGet(drawings, selectedId), editingHandle, chartPoint))
            ELSE /\ currentMousePoint' = PreviewPoint(chartPoint)
                 /\ trace' = <<>>
                 /\ UNCHANGED drawings
     /\ UNCHANGED <<interval, isDrawing, startPoint, currentTool, selectedId, isEditing,
                    editingHandle, metaDown, shiftDown, popupVisible>>

OnChartMove(pt) == MoveAt(pt, PointerPoint(pt))

(***************************************************************************)
(* The ChartDrawingManager of frontend/src/utils, the one the heatmap      *)
(* component imports.  It has no selection and no editing; its coordinate  *)
(* mapper is the same code as above.  The canvas receives mouse events     *)
(* only while a tool is armed (pointer-events: none otherwise).            *)
(***************************************************************************)
VARIABLES
  legacyDrawings,     \* this.drawings
  legacyIsDrawing,    \* this.isDrawing
  legacyStartPoint,   \* this.startPoint
  legacyMousePoint,   \* this.currentMousePoint
  legacyTool          \* this.currentTool

legacyVars == <<legacyDrawings, legacyIsDrawing, legacyStartPoint, legacyMousePoint, legacyTool>>

LegacyInit ==
  /\ legacyDrawings = <<>>
  /\ legacyIsDrawing = FALSE
  /\ legacyStartPoint = NoPoint
  /\ legacyMousePoint = NoPoint
  /\ legacyTool = "none"

LegacySetTool(tool) ==
  /\ legacyTool' = tool
  /\ trace' = <<>>
  /\ UNCHANGED <<legacyDrawings, legacyIsDrawing, legacyStartPoint, legacyMousePoint>>

\* loadDrawings stores the drawings as given
RECURSIVE LegacyLoadFrom(_, _, _)
LegacyLoadFrom(list, i, acc) ==
  IF i > Len(list) THEN acc
  ELSE LegacyLoadFrom(list, i + 1,
                      IF list[i].id # NoId THEN StoreSet(acc, list[i].id, list[i]) ELSE acc)

LegacyLoadDrawings(list) ==
  /\ legacyDrawings' = LegacyLoadFrom(list, 1, <<>>)
  /\ trace' = <<>>
  /\ UNCHANGED <<legacyIsDrawing, legacyStartPoint, legacyMousePoint, legacyTool>>

LegacyRemoveDrawing(id) ==
  /\ legacyDrawings' = StoreDelete(legacyDrawings, id)
  /\ trace' = <<>>
  /\ UNCHANGED <<legacyIsDrawing, legacyStartPoint, legacyMousePoint, legacyTool>>

LegacyClearAll ==
  /\ legacyDrawings' = <<>>
  /\ trace' = <<>>
  /\ UNCHANGED <<legacyIsDrawing, legacyStartPoint, legacyMousePoint, legacyTool>>

\* createDrawing: no properties, hence no basePoints
legacyCreateDrawing(id, tool, iv, p1, p2) ==
  [id |-> id, tool |-> tool, interval |-> iv,
   points |-> << [time |-> p1.time, price |-> p1.price], [time |-> p2.time, price |-> p2.price] >>,
   color |-> DefaultColor,
   hasBase |-> FALSE, basePoints |-> <<>>, baseInterval |-> NoBaseInterval]

LegacyDownAt(chartPoint) ==
  IF legacyTool = "none" \/ chartPoint = NoPoint
    THEN /\ trace' = <<>>
         /\ UNCHANGED <<legacyIsDrawing, legacyStartPoint, legacyMousePoint>>
  ELSE IF ~legacyIsDrawing
    THEN /\ legacyIsDrawing' = TRUE
         /\ legacyStartPoint' = chartPoint
         /\ legacyMousePoint' = chartPoint
         /\ trace' = <<>>
  ELSE IF legacyStartPoint = NoPoint
    THEN /\ trace' = <<>>
         /\ UNCHANGED <<legacyIsDrawing, legacyStartPoint, legacyMousePoint>>
  ELSE IF IsDegenerate(legacyStartPoint, chartPoint)
    THEN /\ legacyIsDrawing' = FALSE
         /\ legacyStartPoint' = NoPoint
         /\ legacyMousePoint' = NoPoint
         /\ trace' = <<>>
  ELSE /\ \E id \in NewIds :
            trace' = <<CallComplete(legacyCreateDrawing(id, legacyTool, interval, legacyStartPoint, chartPoint))>>
       /\ legacyIsDrawing' = FALSE
       /\ legacyStartPoint' = NoPoint
       /\ legacyMousePoint' = NoPoint

\* onMouseDown at a pixel of the canvas
LegacyMouseDown(pt) ==
  /\ pt.has
  /\ legacyTool # "none"
  /\ LegacyDownAt(screenToChartPoint(Chart, interval, pt.x, pt.y))
  /\ UNCHANGED <<legacyDrawings, legacyTool>>

LegacyMoveAt(chartPoint) ==
  /\ legacyMousePoint' = IF chartPoint # NoPoint THEN chartPoint ELSE legacyMousePoint
  /\ trace' = <<>>
  /\ UNCHANGED <<legacyDrawings, legacyIsDrawing, legacyStartPoint, legacyTool>>

\* onMouseMove at a pixel of the canvas
LegacyMouseMove(pt) ==
  /\ pt.has
  /\ legacyTool # "none"
  /\ LegacyMoveAt(screenToChartPoint(Chart, interval, pt.x, pt.y))

(***************************************************************************)
(* CustomChartDrawing: the canvas overlay that keeps what it creates.  The *)
(* chart reports times as numbers, so toUnixTime leaves them as they are.  *)
(***************************************************************************)
\* timeScale.logicalToCoordinate: bar l (from 0) sits at x = l * spacing
logicalToCoordinate(chart, l) == l * chart.spacing

\* floor of getVisibleLogicalRange().to: the logical index at the right edge
LastLogical(chart) ==
  IF chart.spacing > 0 THEN (chart.width * chart.sub) \div chart.spacing ELSE 0

\* timeScale.options().barSpacing || 6
OptionsBarSpacing(chart) ==
  IF chart.spacing # 0 THEN chart.spacing ELSE DefaultBarSpacing * chart.sub

\* the reference bar of a pixel without a time: hits are the pixels left of x
\* that resolve to a time, logicals the bars up to the right edge that do
CustomReferenceFrom(chart, hits, logicals) ==
  IF hits # {}
    THEN [ok |-> TRUE, foundX |-> (CHOOSE v \in hits : \A w \in hits : w <= v) * chart.sub,
          foundTime |-> coordinateToTime(chart, (CHOOSE v \in hits : \A w \in hits : w <= v) * chart.sub)]
  ELSE IF logicals # {}
    THEN [ok |-> TRUE,
          foundX |-> logicalToCoordinate(chart, CHOOSE l \in logicals : \A m \in logicals : m <= l),
          foundTime |-> coordinateToTime(chart,
                          logicalToCoordinate(chart, CHOOSE l \in logicals : \A m \in logicals : m <= l))]
  ELSE [ok |-> FALSE, foundX |-> 0, foundTime |-> 0]

CustomReference(chart, x) ==
  CustomReferenceFrom(chart,
    {v \in 0..(x - 1) : coordinateToTime(chart, v * chart.sub) # -1},
    {l \in 0..LastLogical(chart) : coordinateToTime(chart, logicalToCoordinate(chart, l)) # -1})

\* the point under a pixel: priced is FALSE when the price is null, found is FALSE
\* when the pixel has no time and no reference bar exists
CustomPointFrom(x, time, price, ref, sec, spacing) ==
  IF price = -1 THEN [priced |-> FALSE, found |-> FALSE, time |-> 0, price |-> 0]
  ELSE IF time # -1 THEN [priced |-> TRUE, found |-> TRUE, time |-> time, price |-> price]
  ELSE IF ~ref.ok THEN [priced |-> TRUE, found |-> FALSE, time |-> 0, price |-> price]
  ELSE [priced |-> TRUE, found |-> TRUE,
        time |-> ref.foundTime + RoundDiv((x - ref.foundX) * sec, spacing), price |-> price]

CustomPoint(chart, sec, x, y) ==
  CustomPointFrom(x * chart.sub, coordinateToTime(chart, x * chart.sub), coordinateToPrice(chart, y),
                  CustomReference(chart, x), sec, OptionsBarSpacing(chart))

getColorForType(type) ==
  CASE type = "line" -> "#2962FF"
    [] type = "fib" -> "#FF6D00"
    [] type = "rectangle" -> "#00C853"
    [] OTHER -> "#2962FF"

\* the Drawing built by handleDrawingClick
customDrawing(id, tool, p1, p2) ==
  [id |-> id, tool |-> tool, interval |-> "", points |-> <<p1, p2>>, color |-> getColorForType(tool)]

\* a saved line the host hands to drawDrawing
CustomHostLine ==
  [id |-> "d1", tool |-> "line", interval |-> "1m",
   points |-> << [time |-> 60, price |-> 2 * RowGap], [time |-> 120, price |-> RowGap] >>,
   color |-> "#2962FF"]

VARIABLES
  customDrawings,      \* this.drawings
  customTool,          \* this.currentTool
  customIsDrawing,     \* this.isDrawing
  customStartPoint,    \* this.startPoint
  customCurrentPoint,  \* this.currentPoint
  customRafId,         \* this.rafId is not null: a frame is requested
  customPending,       \* callbacks handed to requestAnimationFrame and not yet run
  customRenders,       \* calls of render() by frames since the last frame request
  customMoves          \* moves that reached the rafId test since that request, itself included

customVars == <<customDrawings, customTool, customIsDrawing, customStartPoint,
                customCurrentPoint, customRafId, customPending, customRenders, customMoves>>

\* rafId and the browser's queue of requested frames
customFrameVars == <<customRafId, customPending, customRenders, customMoves>>

CustomInit ==
  /\ customDrawings = <<>>
  /\ customTool = "none"
  /\ customIsDrawing = FALSE
  /\ customStartPoint = NoPoint
  /\ customCurrentPoint = NoPoint
  /\ customRafId = FALSE
  /\ customPending = 0
  /\ customRenders = 0
  /\ customMoves = 0

CustomSetTool(tool) ==
  /\ customTool' = tool
  /\ customIsDrawing' = FALSE
  /\ customStartPoint' = NoPoint
  /\ customCurrentPoint' = NoPoint
  /\ trace' = <<>>
  /\ UNCHANGED <<customDrawings, customFrameVars>>

drawDrawing(ds, drawing) == StoreSet(ds, drawing.id, drawing)

CustomDrawDrawing(drawing) ==
  /\ customDrawings' = drawDrawing(customDrawings, drawing)
  /\ trace' = <<>>
  /\ UNCHANGED <<customTool, customIsDrawing, customStartPoint, customCurrentPoint, customFrameVars>>

CustomRemoveDrawing(id) ==
  /\ customDrawings' = StoreDelete(customDrawings, id)
  /\ trace' = <<>>
  /\ UNCHANGED <<customTool, customIsDrawing, customStartPoint, customCurrentPoint, customFrameVars>>

CustomClearAll ==
  /\ customDrawings' = <<>>
  /\ trace' = <<>>
  /\ UNCHANGED <<customTool, customIsDrawing, customStartPoint, customCurrentPoint, customFrameVars>>

\* handleDrawingClick: the first click starts the gesture, the second stores the
\* drawing, reports it and disarms the tool.  Ids come from the clock: a click
\* that ends a gesture needs an id not yet in the Map.
handleDrawingClick(point) ==
  IF ~customIsDrawing
    THEN /\ customIsDrawing' = TRUE
         /\ customStartPoint' = point
         /\ customCurrentPoint' = point
         /\ trace' = <<>>
         /\ UNCHANGED <<customDrawings, customTool>>
  ELSE IF customStartPoint # NoPoint
    THEN /\ \E id \in NewIds \ StoreIds(customDrawings) :
              /\ customDrawings' =
                   drawDrawing(customDrawings, customDrawing(id, customTool, customStartPoint, point))
              /\ trace' = <<CallComplete(customDrawing(id, customTool, customStartPoint, point))>>
         /\ customIsDrawing' = FALSE
         /\ customStartPoint' = NoPoint
         /\ customCurrentPoint' = NoPoint
         /\ customTool' = "none"
  ELSE /\ trace' = <<>>
       /\ UNCHANGED <<customDrawings, customTool, customIsDrawing, customStartPoint, customCurrentPoint>>

CustomClickAt(point) ==
  IF customTool = "none" \/ ~point.priced \/ ~point.found
    THEN /\ trace' = <<>>
         /\ UNCHANGED <<customDrawings, customTool, customIsDrawing, customStartPoint, customCurrentPoint>>
    ELSE handleDrawingClick([time |-> point.time, price |-> point.price])

\* onNativeClick at a pixel of the canvas
CustomClick(pt) ==
  /\ pt.has
  /\ CustomClickAt(CustomPoint(Chart, secondsForInterval(interval), pt.x, pt.y))
  /\ UNCHANGED customFrameVars

\* frames a move may leave requested when every move requests one
MaxPending == 3
\* moves counted between one frame request and the next
MaxMoves == 3

\* a move that requests a frame whether or not one is requested already
RequestFrameAlways ==
  /\ customPending < MaxPending
  /\ customRafId' = TRUE
  /\ customPending' = customPending + 1
  /\ customRenders' = IF customRafId THEN customRenders ELSE 0
  /\ customMoves' = IF customRafId THEN Min(customMoves + 1, MaxMoves) ELSE 1

\* the tail of onNativeMouseMove: nothing while rafId is set, else one request
RequestFrame ==
  IF customRafId
    THEN /\ customMoves' = Min(customMoves + 1, MaxMoves)
         /\ UNCHANGED <<customRafId, customPending, customRenders>>
    ELSE /\ customRafId' = TRUE
         /\ customPending' = customPending + 1
         /\ customRenders' = 0
         /\ customMoves' = 1

CustomMoveAt(point) ==
  IF ~customIsDrawing \/ customStartPoint = NoPoint \/ customTool = "none" \/ ~point.priced
    THEN UNCHANGED <<customCurrentPoint, customFrameVars>>
  ELSE IF point.found
    THEN /\ customCurrentPoint' = [time |-> point.time, price |-> point.price]
         /\ RequestFrame
  ELSE IF customCurrentPoint # NoPoint
    THEN /\ customCurrentPoint' = [time |-> customCurrentPoint.time, price |-> point.price]
         /\ RequestFrame
  ELSE UNCHANGED <<customCurrentPoint, customFrameVars>>

\* onNativeMouseMove at a pixel of the canvas
CustomMouseMove(pt) ==
  /\ pt.has
  /\ CustomMoveAt(CustomPoint(Chart, secondsForInterval(interval), pt.x, pt.y))
  /\ trace' = <<>>
  /\ UNCHANGED <<customDrawings, customTool, customIsDrawing, customStartPoint>>

\* the requested animation frame runs: rafId is cleared and the canvas rendered
CustomFrame ==
  /\ customPending > 0
  /\ customPending' = customPending - 1
  /\ customRafId' = FALSE
  /\ customRenders' = customRenders + 1
  /\ trace' = <<>>
  /\ UNCHANGED customMoves
  /\ UNCHANGED <<customDrawings, customTool, customIsDrawing, customStartPoint, customCurrentPoint>>

(***************************************************************************)
(* Interval switches.  The host keeps one drawing and builds a manager for *)
(* each interval it switches to, loading into it the drawing as the last   *)
(* manager returned it.                                                    *)
(***************************************************************************)
\* interval switches followed in one behaviour
MaxSwitches == 2
\* bars of the authored interval the authored points may lie on
MaxBar == 1
\* seconds by which an extrapolated point may lie off the bar grid
OffGrid == 37

\* a time inside the second hour that lies on no bar of any interval
ExampleTime == 3723

AuthoredTimes(iv) ==
  {i * secondsForInterval(iv) + off : i \in 0..MaxBar, off \in {0, OffGrid}} \cup {ExampleTime}

\* a line authored under iv between times t1 and t2: with its properties, as
\* createDrawing builds it (hb), or saved without them
AuthoredLine(iv, t1, t2, hb) ==
  [id |-> "d1", tool |-> "line", interval |-> iv,
   points |-> << [time |-> t1, price |-> RowGap], [time |-> t2, price |-> 2 * RowGap] >>,
   color |-> DefaultColor, hasBase |-> hb,
   basePoints |-> IF hb THEN << [time |-> t1, price |-> RowGap], [time |-> t2, price |-> 2 * RowGap] >>
                        ELSE <<>>,
   baseInterval |-> IF hb THEN iv ELSE NoBaseInterval]

AuthoredUnder(iv) ==
  {AuthoredLine(iv, t1, t2, hb) : t1 \in AuthoredTimes(iv), t2 \in AuthoredTimes(iv), hb \in BOOLEAN}

AuthoredDrawings == UNION {AuthoredUnder(iv) : iv \in Intervals}

VARIABLES
  authored,    \* the drawing as it was authored
  shown,       \* the drawing as the last manager mapped it
  switches     \* the intervals switched to, in order

remapVars == <<authored, shown, switches>>

\* no interval switch is under way
RemapIdle ==
  /\ authored = HostLine("1m")
  /\ shown = HostLine("1m")
  /\ switches = <<>>

RemapInit ==
  /\ authored \in AuthoredDrawings
  /\ shown = authored
  /\ switches = <<>>

\* a manager under interval toIv is built and loadDrawings is given the drawing
SwitchInterval(toIv) ==
  /\ Len(switches) < MaxSwitches
  /\ shown' = loadDrawings(<<shown>>, toIv)[1]
  /\ switches' = Append(switches, toIv)
  /\ UNCHANGED authored

(***************************************************************************)
(* Projection of points to the screen.  A manager is attached to a chart   *)
(* and asked for the screen position of points on and to the right of its  *)
(* candles, as the render loop does for the end points of every drawing.   *)
(***************************************************************************)
\* bars to the right of the last candle a projected point may lie on
MaxAhead == 3

\* the chart zoomed out to the smallest bar spacing of the time scale, half a pixel
ZoomedOutChart(iv) ==
  [candles |-> [i \in 1..NumCandles |-> CandleAt(iv, i)],
   spacing |-> 1,
   sub     |-> 2,
   width   |-> NumCandles,
   height  |-> 2 * RowGap]

\* the chart scrolled so that its last candle sits at the right edge
ScrolledChart(iv) ==
  [candles |-> [i \in 1..NumCandles |-> CandleAt(iv, i)],
   spacing |-> ChartBarSpacing,
   sub     |-> 1,
   width   |-> (NumCandles - 1) * ChartBarSpacing + 1,
   height  |-> 2 * RowGap]

ChartsOf(iv) == {MainChart(iv), ZoomedOutChart(iv), ScrolledChart(iv)}

\* points on the candles and up to MaxAhead bars to their right, on and off the bars
ProjectedTimes(chart, iv) ==
  {chart.candles[i].time : i \in DOMAIN chart.candles}
    \cup {getLastCandleTime(chart) + n * secondsForInterval(iv) + off :
             n \in 1..MaxAhead, off \in {0, OffGrid}}

ProjectedPoints(chart, iv) ==
  {[time |-> t, price |-> p] : t \in ProjectedTimes(chart, iv), p \in {RowGap, 2 * RowGap}}

\* CustomChartDrawing.pointToCoordinate once the chart has been asked: x is the
\* coordinate of the time, hasRange tells whether a visible logical range exists,
\* rightCoord and rightTime belong to the right end of that range
CustomXFrom(timeSec, x, hasRange, rightCoord, rightTime, sec, spacing) ==
  IF x # NoX THEN [ok |-> TRUE, num |-> x, den |-> 1]
  ELSE IF ~hasRange \/ rightTime = -1 THEN [ok |-> FALSE, num |-> 0, den |-> 1]
  ELSE Extrapolate(rightCoord, timeSec - rightTime, sec, spacing)

pointToCoordinate(chart, sec, p) ==
  ScreenPointAt(
    InPixels(CustomXFrom(p.time,
                         timeToCoordinate(chart, p.time),
                         Len(chart.candles) > 0,
                         logicalToCoordinate(chart, LastLogical(chart)),
                         coordinateToTime(chart, logicalToCoordinate(chart, LastLogical(chart))),
                         sec,
                         chart.spacing),
             chart.sub),
    priceToCoordinate(chart, p.price))

VARIABLES
  projChart,      \* the chart the manager is attached to
  projInterval,   \* the interval the manager was built with
  projPoint,      \* the point last projected
  projected,      \* what chartToScreenPoint / pointToCoordinate returned for it
  projEngine      \* the engine that was asked

projVars == <<projChart, projInterval, projPoint, projected, projEngine>>

NoScreenPoint == [ok |-> FALSE, xn |-> 0, yn |-> 0, den |-> 1]

\* nothing is being projected
ProjIdle ==
  /\ projChart = MainChart("1m")
  /\ projInterval = "1m"
  /\ projPoint = NoPoint
  /\ projected = NoScreenPoint
  /\ projEngine = "none"

ProjInit ==
  /\ projInterval \in Intervals
  /\ projChart \in ChartsOf(projInterval)
  /\ projPoint = NoPoint
  /\ projected = NoScreenPoint
  /\ projEngine = "none"

\* ChartDrawingManager projects p
ToScreen(p) ==
  /\ projPoint' = p
  /\ projected' = chartToScreenPoint(projChart, projInterval, p)
  /\ projEngine' = "manager"
  /\ UNCHANGED <<projChart, projInterval>>

\* CustomChartDrawing projects p
CustomToScreen(p) ==
  /\ projPoint' = p
  /\ projected' = pointToCoordinate(projChart, secondsForInterval(projInterval), p)
  /\ projEngine' = "custom"
  /\ UNCHANGED <<projChart, projInterval>>

(***************************************************************************)
(* Body hit tests.  A manager under 1m holds one or two shapes and is      *)
(* asked which shape lies under a pixel.                                   *)
(***************************************************************************)
\* a shape between two of the points a drawing can have on the first three bars
ShapeTimes == {60, 120, 180}

Shape(id, tool, t1, p1, t2, p2) ==
  [id |-> id, tool |-> tool, interval |-> "1m",
   points |-> << [time |-> t1, price |-> p1], [time |-> t2, price |-> p2] >>,
   color |-> DefaultColor, hasBase |-> TRUE,
   basePoints |-> << [time |-> t1, price |-> p1], [time |-> t2, price |-> p2] >>,
   baseInterval |-> "1m"]

Shapes ==
  {Shape("d1", tool, t1, p1, t2, p2) :
     tool \in {"line", "rectangle", "fib"},
     t1 \in ShapeTimes, p1 \in {RowGap, 2 * RowGap},
     t2 \in ShapeTimes, p2 \in {RowGap, 2 * RowGap}}

\* a rectangle over the first two bars, loaded before the shape
Cover == Shape("d2", "rectangle", 60, 2 * RowGap, 120, RowGap)

HitStores == {<<a>> : a \in Shapes} \cup {<<Cover, a>> : a \in Shapes}

\* the pixels of the bars and of the points half way between them, and the pixels
\* one more than the body threshold outside them
HitXs ==
  {(k * ChartBarSpacing) \div 2 : k \in 0..4}
    \cup {-(ShapeThreshold + 1), ChartBarSpacing + ShapeThreshold + 1,
          2 * ChartBarSpacing + ShapeThreshold + 1}

HitYs ==
  {(k * RowGap) \div 2 : k \in 0..2} \cup {-(ShapeThreshold + 1), RowGap + ShapeThreshold + 1}

VARIABLES
  hitStore,    \* this.drawings of the manager asked
  hitPixel,    \* the pixel last asked about
  hitBody,     \* what hitTestShape returned for it
  hitHandle    \* what hitTestHandles returned for it

hitVars == <<hitStore, hitPixel, hitBody, hitHandle>>

HitIdle ==
  /\ hitStore = <<HostLine("1m")>>
  /\ hitPixel = NoPointer
  /\ hitBody = NoId
  /\ hitHandle = NoHit

HitInit ==
  /\ hitStore \in HitStores
  /\ hitPixel = NoPointer
  /\ hitBody = NoId
  /\ hitHandle = NoHit

HitTestShape(sx, sy) ==
  /\ hitPixel' = [has |-> TRUE, x |-> sx, y |-> sy]
  /\ hitBody' = hitTestShape(MainChart("1m"), "1m", hitStore, sx, sy)
  /\ UNCHANGED <<hitStore, hitHandle>>

\* a line from the first bar to the third, loaded before the shape
Long == Shape("d2", "line", 60, 2 * RowGap, 180, RowGap)

HandleShapes == {a \in Shapes : a.tool \in {"line", "rectangle"}}

HandleStores ==
  {<<a>> : a \in HandleShapes} \cup {<<Cover, a>> : a \in HandleShapes}
    \cup {<<Long, a>> : a \in HandleShapes}

\* the pixels a quarter of a bar and a quarter of a row apart
HandleXs == {(k * ChartBarSpacing) \div 4 : k \in -1..9}

HandleYs == {(k * RowGap) \div 4 : k \in -1..5}

HandleInit ==
  /\ hitStore \in HandleStores
  /\ hitPixel = NoPointer
  /\ hitBody = NoId
  /\ hitHandle = NoHit

HitTestHandles(sx, sy) ==
  /\ hitPixel' = [has |-> TRUE, x |-> sx, y |-> sy]
  /\ hitHandle' = hitTestHandles(MainChart("1m"), "1m", hitStore, sx, sy)
  /\ UNCHANGED <<hitStore, hitBody>>

(***************************************************************************)
(* useDrawingManager: the hook that holds the drawings of the active        *)
(* (symbol, interval) and talks to the Gateway.  The Gateway keeps its      *)
(* records by symbol and interval; a call to it is in flight from the       *)
(* moment the hook makes it until its promise settles.                      *)
(***************************************************************************)
Symbols == {"BTCUSDT", "ETHUSDT"}
HookIntervals == {"1m", "1h"}
MaxInFlight == 2
NoError == "null"

VARIABLES
  hookSymbol,      \* the symbol prop of the last render
  hookInterval,    \* the interval prop of the last render
  hookDrawings,    \* the drawings state
  hookLoading,     \* the loading state
  hookError,       \* the error state
  thrown,          \* the last step rejected the promise returned to the caller
  requests,        \* the Gateway calls in flight
  gateway          \* the records of the Gateway, by symbol and interval

hookVars == <<hookSymbol, hookInterval, hookDrawings, hookLoading, hookError, thrown,
              requests, gateway>>

Record(id, symbol, iv) == [id |-> id, symbol |-> symbol, interval |-> iv]
Request(kind, id, symbol, iv) == [kind |-> kind, id |-> id, symbol |-> symbol, interval |-> iv]

\* the record the Gateway holds for a pairing before any save
Stored(symbol, iv) == Record(symbol \o ":" \o iv, symbol, iv)

Range(list) == { list[k] : k \in DOMAIN list }

HasId(list, id) == \E k \in DOMAIN list : list[k].id = id

\* prev.findIndex((d) => d.id === id)
findIndex(list, id) ==
  CHOOSE k \in DOMAIN list : list[k].id = id /\ \A j \in 1..(k - 1) : list[j].id # id

\* the updater of addDrawing: replace the record of the same id, else append
Upserted(prev, saved) ==
  IF HasId(prev, saved.id)
    THEN [prev EXCEPT ![findIndex(prev, saved.id)] = saved]
    ELSE Append(prev, saved)

KeepsOther(d, id) == d.id # id

\* the updater of removeDrawing
Filtered(prev, id) == SelectSeq(prev, LAMBDA d : KeepsOther(d, id))

\* the effect of the first render: a load of the first pairing is in flight
HookInit ==
  /\ hookSymbol = "BTCUSDT"
  /\ hookInterval = "1m"
  /\ hookDrawings = <<>>
  /\ hookLoading = TRUE
  /\ hookError = NoError
  /\ thrown = FALSE
  /\ requests = {Request("load", NoId, "BTCUSDT", "1m")}
  /\ gateway = [symbol \in Symbols |-> [iv \in HookIntervals |-> <<Stored(symbol, iv)>>]]

\* the first load has resolved for a pairing of which the Gateway holds no record
HookIdle ==
  /\ hookSymbol = "BTCUSDT"
  /\ hookInterval = "1m"
  /\ hookDrawings = <<>>
  /\ hookLoading = FALSE
  /\ hookError = NoError
  /\ thrown = FALSE
  /\ requests = {}
  /\ gateway = [symbol \in Symbols |-> [iv \in HookIntervals |-> <<>>]]

\* a render with another symbol or interval: the load effect runs again
ChangePairing(symbol, iv) ==
  /\ <<symbol, iv>> # <<hookSymbol, hookInterval>>
  /\ Cardinality(requests) < MaxInFlight
  /\ hookSymbol' = symbol
  /\ hookInterval' = iv
  /\ hookLoading' = TRUE
  /\ hookError' = NoError
  /\ requests' = requests \cup {Request("load", NoId, symbol, iv)}
  /\ thrown' = FALSE
  /\ UNCHANGED <<hookDrawings, gateway>>

\* getDrawings resolves with the records of the pairing it was called for
LoadResolves(r) ==
  /\ r \in requests
  /\ r.kind = "load"
  /\ hookDrawings' = gateway[r.symbol][r.interval]
  /\ hookLoading' = FALSE
  /\ requests' = requests \ {r}
  /\ thrown' = FALSE
  /\ UNCHANGED <<hookSymbol, hookInterval, hookError, gateway>>

LoadRejects(r) ==
  /\ r \in requests
  /\ r.kind = "load"
  /\ hookError' = "Failed to load drawings"
  /\ hookLoading' = FALSE
  /\ requests' = requests \ {r}
  /\ thrown' = FALSE
  /\ UNCHANGED <<hookSymbol, hookInterval, hookDrawings, gateway>>

\* addDrawing(drawing): saveDrawing is called with the symbol and interval of the render
addDrawing(id) ==
  /\ Cardinality(requests) < MaxInFlight
  /\ requests' = requests \cup {Request("save", id, hookSymbol, hookInterval)}
  /\ thrown' = FALSE
  /\ UNCHANGED <<hookSymbol, hookInterval, hookDrawings, hookLoading, hookError, gateway>>

SaveResolves(r) ==
  /\ r \in requests
  /\ r.kind = "save"
  /\ gateway' = [gateway EXCEPT ![r.symbol][r.interval] =
                   Upserted(gateway[r.symbol][r.interval], Record(r.id, r.symbol, r.interval))]
  /\ hookDrawings' = Upserted(hookDrawings, Record(r.id, r.symbol, r.interval))
  /\ requests' = requests \ {r}
  /\ thrown' = FALSE
  /\ UNCHANGED <<hookSymbol, hookInterval, hookLoading, hookError>>

SaveRejects(r) ==
  /\ r \in requests
  /\ r.kind = "save"
  /\ hookError' = "Failed to save drawing"
  /\ thrown' = TRUE
  /\ requests' = requests \ {r}
  /\ UNCHANGED <<hookSymbol, hookInterval, hookDrawings, hookLoading, gateway>>

\* removeDrawing(drawingId)
removeDrawing(id) ==
  /\ Cardinality(requests) < MaxInFlight
  /\ requests' = requests \cup {Request("delete", id, hookSymbol, hookInterval)}
  /\ thrown' = FALSE
  /\ UNCHANGED <<hookSymbol, hookInterval, hookDrawings, hookLoading, hookError, gateway>>

DeleteResolves(r) ==
  /\ r \in requests
  /\ r.kind = "delete"
  /\ gateway' = [symbol \in Symbols |-> [iv \in HookIntervals |-> Filtered(gateway[symbol][iv], r.id)]]
  /\ hookDrawings' = Filtered(hookDrawings, r.id)
  /\ requests' = requests \ {r}
  /\ thrown' = FALSE
  /\ UNCHANGED <<hookSymbol, hookInterval, hookLoading, hookError>>

DeleteRejects(r) ==
  /\ r \in requests
  /\ r.kind = "delete"
  /\ hookError' = "Failed to delete drawing"
  /\ thrown' = TRUE
  /\ requests' = requests \ {r}
  /\ UNCHANGED <<hookSymbol, hookInterval, hookDrawings, hookLoading, gateway>>

\* the requests the hook can have in flight
AllRequests ==
  { Request(kind, id, symbol, iv) :
      kind \in {"load", "save", "delete"}, id \in NewIds \cup {NoId, "d1"},
      symbol \in Symbols, iv \in HookIntervals }

(***************************************************************************)
(* Select mode on a Store of one or two annotations: the clicks and double  *)
(* clicks of the pointer with no tool armed, with the handle the pointer    *)
(* hit last kept beside the state of the manager.                           *)
(***************************************************************************)
\* a rectangle next to the line of the host
Box == Shape("d2", "rectangle", 120, 2 * RowGap, 180, RowGap)

SelectStores == { <<HostLine("1m")>>, <<HostLine("1m"), Box>>, <<Box, HostLine("1m")>> }

\* the pixels of the bars, of the points half way between them, and no pixel
SelectPointers ==
  {[has |-> TRUE, x |-> (i * ChartBarSpacing) \div 2, y |-> (j * RowGap) \div 2] :
     i \in 0..4, j \in 0..2} \cup {NoPointer}

VARIABLES
  lastHit,   \* what hitTestHandles returned for the last click or double click
  lastInput, \* the handler that ran last, none at first
  before     \* the selection, the editing state and the ids of the Store it found

selVars == <<lastHit, lastInput, before>>

Selection ==
  [selectedId |-> selectedId, isEditing |-> isEditing, editingHandle |-> editingHandle,
   ids |-> StoreIds(drawings)]

SelIdle ==
  /\ lastHit = NoHit
  /\ lastInput = "none"
  /\ before = [selectedId |-> NoId, isEditing |-> FALSE, editingHandle |-> "none", ids |-> {}]

SelectInit ==
  /\ interval = "1m"
  /\ drawings \in SelectStores
  /\ isDrawing = FALSE
  /\ startPoint = NoPoint
  /\ currentMousePoint = NoPoint
  /\ currentTool = "none"
  /\ selectedId = NoId
  /\ isEditing = FALSE
  /\ editingHandle = "none"
  /\ metaDown = FALSE
  /\ shiftDown = FALSE
  /\ popupVisible = FALSE
  /\ trace = <<>>

\* the pixels past the last candle that stand for a whole number of seconds are
\* WholeSecondStep apart; HalfBar is the one of them about half a bar past it
WholeSecondStep == ChartBarSpacing \div Gcd(ChartBarSpacing, secondsForInterval("1m"))

HalfBar ==
  WholeSecondStep * ((Gcd(ChartBarSpacing, secondsForInterval("1m")) + 1) \div 2)

\* the pixels of the two bars, and two pixels off the rows in the right margin: half
\* a bar past the last candle near its high, a whole bar past it near its close
SnapPointers ==
  { [has |-> TRUE, x |-> 0, y |-> 0],
    [has |-> TRUE, x |-> ChartBarSpacing, y |-> RowGap],
    [has |-> TRUE, x |-> (NumCandles - 1) * ChartBarSpacing + HalfBar, y |-> 2],
    [has |-> TRUE, x |-> NumCandles * ChartBarSpacing, y |-> RowGap \div 2 + 2],
    NoPointer }

\* the host line loaded under the interval 1m
SnapInit ==
  /\ interval = "1m"
  /\ drawings = <<HostLine("1m")>>
  /\ isDrawing = FALSE
  /\ startPoint = NoPoint
  /\ currentMousePoint = NoPoint
  /\ currentTool = "none"
  /\ selectedId = NoId
  /\ isEditing = FALSE
  /\ editingHandle = "none"
  /\ metaDown = FALSE
  /\ shiftDown = FALSE
  /\ popupVisible = FALSE
  /\ trace = <<>>

\* a rectangle over the first two bars, as the host can load it
HostBox == Shape("d1", "rectangle", 60, 2 * RowGap, 120, RowGap)

EditStores == { <<HostLine("1m")>>, <<HostBox>> }

EditInit ==
  /\ interval = "1m"
  /\ drawings \in EditStores
  /\ isDrawing = FALSE
  /\ startPoint = NoPoint
  /\ currentMousePoint = NoPoint
  /\ currentTool = "none"
  /\ selectedId = NoId
  /\ isEditing = FALSE
  /\ editingHandle = "none"
  /\ metaDown = FALSE
  /\ shiftDown = FALSE
  /\ popupVisible = FALSE
  /\ trace = <<>>

\* the handle under the pointer is kept when the pointer has a position
Hits(pt) ==
  lastHit' = IF pt.has THEN hitTestHandles(Chart, interval, drawings, pt.x, pt.y) ELSE lastHit

(***************************************************************************)
(* Specifications: one per engine, the other engines standing still        *)
(***************************************************************************)
mgrOwn == <<interval, drawings, isDrawing, startPoint, currentMousePoint, currentTool,
            selectedId, isEditing, editingHandle, metaDown, shiftDown, popupVisible>>

\* Life cycle of ChartDrawingManager: what the constructor subscribes to and
\* starts, and what destroy() releases.  An event reaches the manager only
\* through a subscription that is still in place.
\* the subscriptions of setupCanvas and startRenderLoop
HandlerSubscriptions == {"click", "crosshairMove", "dblClick", "keydown", "keyup", "blur"}
RangeSubscriptions == {"visibleTimeRangeChange", "visibleLogicalRangeChange"}
AllSubscriptions == HandlerSubscriptions \cup RangeSubscriptions \cup {"resize"}

VARIABLES
  subscriptions,   \* the subscriptions and listeners that are in place
  framePending,    \* an animation frame is requested and not cancelled
  canvasAttached,  \* the canvas is in the document
  destroyed,       \* destroy() has returned
  redrawn          \* the last step ran redraw()

lifeVars == <<subscriptions, framePending, canvasAttached, destroyed, redrawn>>

\* the state after the constructor
LifeInit ==
  /\ subscriptions = AllSubscriptions
  /\ framePending = TRUE
  /\ canvasAttached = TRUE
  /\ destroyed = FALSE
  /\ redrawn = FALSE

\* an event arrives through the subscription sub and does not redraw by itself
Delivered(sub) ==
  /\ sub \in subscriptions
  /\ redrawn' = FALSE
  /\ UNCHANGED <<subscriptions, framePending, canvasAttached, destroyed>>

\* the host calls a method of the manager it holds
Called ==
  /\ ~destroyed
  /\ redrawn' = FALSE
  /\ UNCHANGED <<subscriptions, framePending, canvasAttached, destroyed>>

\* the callback of requestAnimationFrame: redraw, and request the next frame
Frame ==
  /\ framePending
  /\ redrawn' = TRUE
  /\ trace' = <<>>
  /\ UNCHANGED <<mgrOwn, subscriptions, framePending, canvasAttached, destroyed>>

\* the time scale reports a change of the visible range: redraw
RangeChange(sub) ==
  /\ sub \in subscriptions
  /\ redrawn' = TRUE
  /\ trace' = <<>>
  /\ UNCHANGED <<mgrOwn, subscriptions, framePending, canvasAttached, destroyed>>

\* the ResizeObserver fires: resizeCanvas, which returns at once when the canvas
\* has no parent element
Resize ==
  /\ "resize" \in subscriptions
  /\ redrawn' = FALSE
  /\ trace' = <<>>
  /\ UNCHANGED <<mgrOwn, subscriptions, framePending, canvasAttached, destroyed>>

Destroy ==
  /\ ~destroyed
  /\ framePending' = FALSE
  /\ subscriptions' = subscriptions \ HandlerSubscriptions
  /\ popupVisible' = FALSE
  /\ canvasAttached' = FALSE
  /\ destroyed' = TRUE
  /\ redrawn' = FALSE
  /\ trace' = <<>>
  /\ UNCHANGED <<interval, drawings, isDrawing, startPoint, currentMousePoint, currentTool,
                 selectedId, isEditing, editingHandle, metaDown, shiftDown>>

(***************************************************************************)
(* The realtime candle series of App (src/frontend/src/App.tsx) and the    *)
(* history requests ChartContainer raises for it.  A candle carries the    *)
(* symbol and interval the server produced it for; fetches and history     *)
(* requests stay in flight until their response is delivered.              *)
(***************************************************************************)
\* REALTIME_MAX_POINTS, scaled to the series lengths followed here
MaxPoints == 1
\* candle times the server may answer with, in bars of five minutes
MaxFeedBar == 2
\* symbol or interval selections followed in one behaviour
MaxFeedSwitches == 1
\* history requests followed while they are in flight
MaxHistory == 2

FeedTimes == {300 * i : i \in 1..MaxFeedBar}
FeedIntervals == {"1m", "5m"}

INTERVAL_SECONDS(iv) ==
  CASE iv = "1m" -> 60
    [] iv = "5m" -> 300
    [] iv = "15m" -> 900
    [] iv = "1h" -> 3600
    [] iv = "4h" -> 14400
    [] iv = "1d" -> 86400

VARIABLES
  selectedSymbol,               \* the selectedSymbol state
  appInterval,                  \* the interval state
  realtimeCandles,              \* the realtimeCandles state
  unsubscribeRef,               \* the subscription unsubscribeRef holds, or NoSubscription
  realtimeHistoryLoadingRef,    \* realtimeHistoryLoadingRef.current
  realtimeHistoryRequestedRef,  \* realtimeHistoryRequestedRef.current
  loads,                        \* the loadData calls waiting for fetchCandles
  histories,                    \* the loadMoreRealtimeHistory calls waiting for fetchCandles
  historyLoadingRef,            \* ChartContainer: historyLoadingRef.current
  requestedEarliestRef,         \* ChartContainer: requestedEarliestRef.current
  feedSwitches,                 \* selections made so far
  merged                        \* what the last step handed to setRealtimeCandles, and for which pairing

feedVars == <<selectedSymbol, appInterval, realtimeCandles, unsubscribeRef,
              realtimeHistoryLoadingRef, realtimeHistoryRequestedRef, loads, histories,
              historyLoadingRef, requestedEarliestRef, feedSwitches, merged>>

NoSubscription == [none |-> TRUE]
NoMerge == [kind |-> "none"]
Merge(kind, pairing) == [kind |-> kind, pairing |-> pairing]
Pairing(symbol, iv) == [symbol |-> symbol, interval |-> iv]
FeedCandle(time, pairing) == [time |-> time, symbol |-> pairing.symbol, interval |-> pairing.interval]
Pairings == {Pairing(s, iv) : s \in Symbols, iv \in FeedIntervals}

\* answers of the server: up to two candles in any order
Answers == {<<>>} \cup {<<a>> : a \in FeedTimes} \cup {<<a, b>> : a, b \in FeedTimes}
\* answers whose candles have distinct times
DistinctAnswers == {ts \in Answers : Cardinality(Range(ts)) = Len(ts)}
CandlesOf(ts, pairing) == [i \in 1..Len(ts) |-> FeedCandle(ts[i], pairing)]

\* Array.prototype.sort((a, b) => a.time - b.time): stable
RECURSIVE InsertByTime(_, _)
InsertByTime(sorted, c) ==
  IF sorted = <<>> THEN <<c>>
  ELSE IF sorted[Len(sorted)].time <= c.time THEN Append(sorted, c)
  ELSE Append(InsertByTime(SubSeq(sorted, 1, Len(sorted) - 1), c), sorted[Len(sorted)])

RECURSIVE SortByTime(_)
SortByTime(list) ==
  IF list = <<>> THEN <<>>
  ELSE InsertByTime(SortByTime(SubSeq(list, 1, Len(list) - 1)), list[Len(list)])

\* next.findIndex((item) => item.time === candle.time), 0 for -1
FindIndexByTime(list, time) ==
  IF \E i \in DOMAIN list : list[i].time = time
    THEN CHOOSE i \in DOMAIN list :
           list[i].time = time /\ \A j \in DOMAIN list : list[j].time = time => i <= j
    ELSE 0

\* the updater onCandle hands to setRealtimeCandles
onCandle(previous, candle, final) ==
  IF previous = <<>> THEN <<candle>>
  ELSE IF FindIndexByTime(previous, candle.time) > 0
    THEN IF final
           THEN [previous EXCEPT ![FindIndexByTime(previous, candle.time)] = candle]
           ELSE previous
  ELSE IF ~final THEN previous
  ELSE IF Len(previous) + 1 > MaxPoints
    THEN SubSeq(SortByTime(Append(previous, candle)),
                Len(previous) + 2 - MaxPoints, Len(previous) + 1)
  ELSE SortByTime(Append(previous, candle))

\* Map.prototype.set: a present key keeps its place and takes the new value
MapSet(entries, c) ==
  IF FindIndexByTime(entries, c.time) > 0
    THEN [entries EXCEPT ![FindIndexByTime(entries, c.time)] = c]
    ELSE Append(entries, c)

RECURSIVE MapSetAll(_, _)
MapSetAll(entries, list) ==
  IF list = <<>> THEN entries
  ELSE MapSetAll(MapSet(entries, Head(list)), Tail(list))

\* the merge without its sort: the answer's candles first, then the others
mergeHistoryUnsorted(previous, result) == MapSetAll(MapSetAll(<<>>, result), previous)

\* the updater loadMoreRealtimeHistory hands to setRealtimeCandles
mergeHistory(previous, result) == SortByTime(MapSetAll(MapSetAll(<<>>, result), previous))

\* the requests in flight are a bag: two requests of one pairing are two requests
History(pairing, mounted) == [pairing |-> pairing, mounted |-> mounted]
Unmounted(bag) ==
  [r \in {History(h.pairing, FALSE) : h \in BagToSet(bag)} |->
     CopiesIn(r, bag) + CopiesIn(History(r.pairing, TRUE), bag)]

\* ChartContainer is rendered only while the series is not empty: a series
\* that becomes empty unmounts it, and the next mount starts with fresh refs
ChartRefsFor(series) ==
  IF series = <<>>
    THEN /\ historyLoadingRef' = FALSE
         /\ requestedEarliestRef' = {}
         /\ histories' = Unmounted(histories)
    ELSE UNCHANGED <<historyLoadingRef, requestedEarliestRef, histories>>

FeedInit ==
  /\ selectedSymbol = "ETHUSDT"
  /\ appInterval = "1m"
  /\ realtimeCandles = <<>>
  /\ unsubscribeRef = NoSubscription
  /\ realtimeHistoryLoadingRef = FALSE
  /\ realtimeHistoryRequestedRef = {}
  /\ loads = {[pairing |-> Pairing("ETHUSDT", "1m"), cancelled |-> FALSE]}
  /\ histories = EmptyBag
  /\ historyLoadingRef = FALSE
  /\ requestedEarliestRef = {}
  /\ feedSwitches = 0
  /\ merged = NoMerge

\* no App is mounted
FeedIdle ==
  /\ selectedSymbol = "ETHUSDT"
  /\ appInterval = "1m"
  /\ realtimeCandles = <<>>
  /\ unsubscribeRef = NoSubscription
  /\ realtimeHistoryLoadingRef = FALSE
  /\ realtimeHistoryRequestedRef = {}
  /\ loads = {}
  /\ histories = EmptyBag
  /\ historyLoadingRef = FALSE
  /\ requestedEarliestRef = {}
  /\ feedSwitches = 0
  /\ merged = NoMerge

\* the effect on [selectedSymbol, interval, mode]: the cleanup of the previous
\* run, then loadData up to its await
RunLoadData(symbol, iv) ==
  /\ feedSwitches < MaxFeedSwitches
  /\ feedSwitches' = feedSwitches + 1
  /\ selectedSymbol' = symbol
  /\ appInterval' = iv
  /\ loads' = {[l EXCEPT !.cancelled = TRUE] : l \in loads}
                \cup {[pairing |-> Pairing(symbol, iv), cancelled |-> FALSE]}
  /\ unsubscribeRef' = NoSubscription
  /\ realtimeHistoryRequestedRef' = {}
  /\ realtimeHistoryLoadingRef' = FALSE
  /\ merged' = NoMerge
  /\ UNCHANGED <<realtimeCandles, histories, historyLoadingRef, requestedEarliestRef>>

SelectSymbol(symbol) ==
  /\ symbol # selectedSymbol
  /\ RunLoadData(symbol, appInterval)

SelectInterval(iv) ==
  /\ iv # appInterval
  /\ RunLoadData(selectedSymbol, iv)

\* fetchCandles of loadData resolves with the candles at times ts
FetchResolves(load, ts) ==
  /\ load \in loads
  /\ loads' = loads \ {load}
  /\ IF load.cancelled
       THEN /\ merged' = NoMerge
            /\ UNCHANGED <<realtimeCandles, unsubscribeRef, histories, historyLoadingRef,
                           requestedEarliestRef>>
       ELSE /\ realtimeCandles' = SortByTime(CandlesOf(ts, load.pairing))
            /\ merged' = Merge("fetch", load.pairing)
            /\ unsubscribeRef' = load.pairing
            /\ ChartRefsFor(SortByTime(CandlesOf(ts, load.pairing)))
  /\ UNCHANGED <<selectedSymbol, appInterval, realtimeHistoryLoadingRef,
                 realtimeHistoryRequestedRef, feedSwitches>>

\* fetchCandles of loadData rejects: the error is shown, the series is kept
FetchRejects(load) ==
  /\ load \in loads
  /\ loads' = loads \ {load}
  /\ merged' = NoMerge
  /\ UNCHANGED <<selectedSymbol, appInterval, realtimeCandles, unsubscribeRef,
                 realtimeHistoryLoadingRef, realtimeHistoryRequestedRef, histories,
                 historyLoadingRef, requestedEarliestRef, feedSwitches>>

\* the subscription delivers a candle of its pairing
CandleEvent(time, final) ==
  /\ unsubscribeRef # NoSubscription
  /\ realtimeCandles' = onCandle(realtimeCandles, FeedCandle(time, unsubscribeRef), final)
  /\ merged' = Merge(IF final THEN "final" ELSE "partial", unsubscribeRef)
  /\ UNCHANGED <<selectedSymbol, appInterval, unsubscribeRef, realtimeHistoryLoadingRef,
                 realtimeHistoryRequestedRef, loads, histories, historyLoadingRef,
                 requestedEarliestRef, feedSwitches>>

\* loadMoreRealtimeHistory(earliestTime) up to its await; the request is the
\* one of the pairing of the render that built the callback
loadMoreRealtimeHistory(earliestTime) ==
  IF realtimeHistoryLoadingRef \/ earliestTime \in realtimeHistoryRequestedRef
    THEN UNCHANGED <<realtimeHistoryLoadingRef, realtimeHistoryRequestedRef, histories,
                     historyLoadingRef>>
  ELSE IF earliestTime - INTERVAL_SECONDS(appInterval) <= 0
    THEN /\ realtimeHistoryRequestedRef' = realtimeHistoryRequestedRef \cup {earliestTime}
         /\ UNCHANGED <<realtimeHistoryLoadingRef, histories, historyLoadingRef>>
  ELSE /\ realtimeHistoryLoadingRef' = TRUE
       /\ realtimeHistoryRequestedRef' = realtimeHistoryRequestedRef \cup {earliestTime}
       /\ histories' = histories (+) SetToBag({History(Pairing(selectedSymbol, appInterval), TRUE)})
       /\ historyLoadingRef' = TRUE

\* handleRangeChange with a range that starts within the first five bars
handleRangeChange ==
  /\ realtimeCandles # <<>>
  /\ BagCardinality(histories) < MaxHistory
  /\ merged' = NoMerge
  /\ IF historyLoadingRef \/ realtimeCandles[1].time \in requestedEarliestRef
       THEN UNCHANGED <<realtimeHistoryLoadingRef, realtimeHistoryRequestedRef, histories,
                        historyLoadingRef, requestedEarliestRef>>
       ELSE /\ requestedEarliestRef' = requestedEarliestRef \cup {realtimeCandles[1].time}
            /\ loadMoreRealtimeHistory(realtimeCandles[1].time)
  /\ UNCHANGED <<selectedSymbol, appInterval, realtimeCandles, unsubscribeRef, loads,
                 feedSwitches>>

\* the finally blocks of loadMoreRealtimeHistory and of handleRangeChange
HistorySettled(h) ==
  /\ realtimeHistoryLoadingRef' = FALSE
  /\ historyLoadingRef' = IF h.mounted THEN FALSE ELSE historyLoadingRef
  /\ histories' = histories (-) SetToBag({h})
  /\ UNCHANGED <<selectedSymbol, appInterval, unsubscribeRef, realtimeHistoryRequestedRef,
                 loads, requestedEarliestRef, feedSwitches>>

\* fetchCandles of the history request h resolves with the candles at ts
HistoryResolves(h, ts) ==
  /\ BagIn(h, histories)
  /\ IF ts = <<>>
       THEN /\ merged' = NoMerge
            /\ UNCHANGED realtimeCandles
       ELSE /\ realtimeCandles' = mergeHistory(realtimeCandles, CandlesOf(ts, h.pairing))
            /\ merged' = Merge("history", h.pairing)
  /\ HistorySettled(h)

\* fetchCandles of the history request h rejects
HistoryRejects(h) ==
  /\ BagIn(h, histories)
  /\ merged' = NoMerge
  /\ UNCHANGED realtimeCandles
  /\ HistorySettled(h)

(***************************************************************************)
(* subscribeToRealtime (src/frontend/src/services/websocketClient.ts): the *)
(* primary socket to the backend, the fallback socket to Binance, and the  *)
(* cleanup function handed back to the caller.  A socket is "connecting",  *)
(* "open", "closing" (close() was called or the connection is failing) or  *)
(* "closed"; the browser delivers messages only while it is open, an error *)
(* event at most once, and the close event last.                           *)
(***************************************************************************)
NoSocket == [state |-> "none", errored |-> FALSE]
NewSocket == [state |-> "connecting", errored |-> FALSE]
Live(socket) == socket.state \in {"connecting", "open"}

\* the payloads of a message: a Binance kline, a backend candle with or
\* without its final flag, an object with neither, null, and text that is not JSON
Payloads == {"kline final", "kline partial", "candle final", "candle partial", "candle",
             "object", "null", "text"}

VARIABLES
  primarySocket,      \* primarySocket
  fallbackSocket,     \* fallbackSocket
  fallbackInitiated,  \* fallbackInitiated
  opened,             \* opened of connectToBackend
  unsubscribed,       \* the cleanup function has been called
  emitted,            \* the callback the last step called: onOpen, onError, onClose,
                      \* onCandle with final or partial, or "none"
  candleAfter,        \* onCandle has been called after cleanup
  socketAfter,        \* a WebSocket has been constructed after cleanup
  fallbacks           \* fallback sockets constructed so far

wsVars == <<primarySocket, fallbackSocket, fallbackInitiated, opened, unsubscribed,
            emitted, candleAfter, socketAfter, fallbacks>>

\* subscribeToRealtime has returned: connectToBackend has run
WsInit ==
  /\ primarySocket = NewSocket
  /\ fallbackSocket = NoSocket
  /\ fallbackInitiated = FALSE
  /\ opened = FALSE
  /\ unsubscribed = FALSE
  /\ emitted = "none"
  /\ candleAfter = FALSE
  /\ socketAfter = FALSE
  /\ fallbacks = 0

\* no subscription was made
WsIdle ==
  /\ primarySocket = NoSocket
  /\ fallbackSocket = NoSocket
  /\ fallbackInitiated = FALSE
  /\ opened = FALSE
  /\ unsubscribed = FALSE
  /\ emitted = "none"
  /\ candleAfter = FALSE
  /\ socketAfter = FALSE
  /\ fallbacks = 0

\* connectToBinance: at most one fallback socket is ever constructed
connectToBinance ==
  IF fallbackInitiated
    THEN UNCHANGED <<fallbackInitiated, fallbackSocket, fallbacks, socketAfter>>
    ELSE /\ fallbackInitiated' = TRUE
         /\ fallbackSocket' = NewSocket
         /\ fallbacks' = fallbacks + 1
         /\ socketAfter' = (socketAfter \/ unsubscribed)

\* WebSocket.close(): a socket that is connecting or open starts closing
Closed(socket) == IF Live(socket) THEN [socket EXCEPT !.state = "closing"] ELSE socket

\* the cleanup function
cleanup ==
  /\ ~unsubscribed
  /\ unsubscribed' = TRUE
  /\ primarySocket' = Closed(primarySocket)
  /\ fallbackSocket' = Closed(fallbackSocket)
  /\ emitted' = "none"
  /\ UNCHANGED <<fallbackInitiated, opened, candleAfter, socketAfter, fallbacks>>

\* parseAndEmit: the call of onCandle a payload leads to; an object without
\* the fields of a candle is passed on as a final candle of NaN fields
parseAndEmit(payload) ==
  CASE payload = "kline final" -> "final"
    [] payload = "kline partial" -> "partial"
    [] payload = "candle final" -> "final"
    [] payload = "candle partial" -> "partial"
    [] payload = "candle" -> "final"
    [] payload = "object" -> "final NaN"
    [] OTHER -> "none"

Emit(payload) ==
  /\ emitted' = parseAndEmit(payload)
  /\ candleAfter' = (candleAfter \/ (unsubscribed /\ parseAndEmit(payload) # "none"))

PrimaryOpen ==
  /\ primarySocket.state = "connecting"
  /\ primarySocket' = [primarySocket EXCEPT !.state = "open"]
  /\ opened' = TRUE
  /\ emitted' = "onOpen"
  /\ UNCHANGED <<fallbackSocket, fallbackInitiated, unsubscribed, candleAfter, socketAfter,
                 fallbacks>>

\* the connection fails, or fails to be made: the error event
PrimaryError ==
  /\ primarySocket.state \in {"connecting", "open", "closing"}
  /\ ~primarySocket.errored
  /\ primarySocket' = [state |-> "closing", errored |-> TRUE]
  /\ IF ~opened THEN connectToBinance
     ELSE UNCHANGED <<fallbackInitiated, fallbackSocket, fallbacks, socketAfter>>
  /\ emitted' = "onError"
  /\ UNCHANGED <<opened, unsubscribed, candleAfter>>

PrimaryClose ==
  /\ primarySocket.state \in {"connecting", "open", "closing"}
  /\ primarySocket' = [primarySocket EXCEPT !.state = "closed"]
  /\ IF ~opened THEN connectToBinance
     ELSE UNCHANGED <<fallbackInitiated, fallbackSocket, fallbacks, socketAfter>>
  /\ emitted' = "onClose"
  /\ UNCHANGED <<opened, unsubscribed, candleAfter>>

PrimaryMessage(payload) ==
  /\ primarySocket.state = "open"
  /\ Emit(payload)
  /\ UNCHANGED <<primarySocket, fallbackSocket, fallbackInitiated, opened, unsubscribed,
                 socketAfter, fallbacks>>

FallbackOpen ==
  /\ fallbackSocket.state = "connecting"
  /\ fallbackSocket' = [fallbackSocket EXCEPT !.state = "open"]
  /\ emitted' = "onOpen"
  /\ UNCHANGED <<primarySocket, fallbackInitiated, opened, unsubscribed, candleAfter,
                 socketAfter, fallbacks>>

FallbackError ==
  /\ fallbackSocket.state \in {"connecting", "open", "closing"}
  /\ ~fallbackSocket.errored
  /\ fallbackSocket' = [state |-> "closing", errored |-> TRUE]
  /\ emitted' = "onError"
  /\ UNCHANGED <<primarySocket, fallbackInitiated, opened, unsubscribed, candleAfter,
                 socketAfter, fallbacks>>

FallbackClose ==
  /\ fallbackSocket.state \in {"connecting", "open", "closing"}
  /\ fallbackSocket' = [fallbackSocket EXCEPT !.state = "closed"]
  /\ emitted' = "onClose"
  /\ UNCHANGED <<primarySocket, fallbackInitiated, opened, unsubscribed, candleAfter,
                 socketAfter, fallbacks>>

FallbackMessage(payload) ==
  /\ fallbackSocket.state = "open"
  /\ Emit(payload)
  /\ UNCHANGED <<primarySocket, fallbackSocket, fallbackInitiated, opened, unsubscribed,
                 socketAfter, fallbacks>>

(***************************************************************************)
(* usePlaybackController (src/unnamed/part_002) over a candle list that    *)
(* does not change.  A step is one call of the controller or one timeout,  *)
(* together with the renders and effects it causes.                        *)
(***************************************************************************)
\* lengths of the candle list followed
MaxPlayback == 4
\* window sizes followed
MaxWindow == 3

VARIABLES
  playbackCandles,  \* the candles argument
  windowSize,       \* the windowSize argument
  cursorIndex,      \* the cursorIndex state
  isPlaying,        \* the isPlaying state
  timerRef,         \* timerRef.current holds a timeout that has not fired
  lastCall,         \* the call or timeout of the last step
  cursorBefore,     \* cursorIndex before the last step
  inputDone         \* the user has made the last call

playVars == <<playbackCandles, windowSize, cursorIndex, isPlaying, timerRef, lastCall,
              cursorBefore, inputDone>>

\* Array.prototype.slice(start, end) for 0 <= start
slice(list, start, end) == SubSeq(list, start + 1, Min(end, Len(list)))

\* the visible memo
visible ==
  IF Len(playbackCandles) = 0 THEN <<>>
  ELSE slice(playbackCandles, Max(0, cursorIndex - windowSize + 1), cursorIndex + 1)

\* jumpTo without the upper limit
ClampedBelow(index, length) == IF length = 0 THEN 0 ELSE Max(index, 0)

\* the index jumpTo stores
Clamped(index, length) == IF length = 0 THEN 0 ELSE Min(Max(index, 0), length - 1)

\* the timer effect that arms the timeout at the last candle as well
TimerEffectNoStop(cursor, playing, length) ==
  IF ~playing \/ length = 0 THEN [isPlaying |-> playing, timerRef |-> FALSE]
  ELSE [isPlaying |-> TRUE, timerRef |-> TRUE]

\* the effect on [isPlaying, candles, cursorIndex]: the timeout is cleared; at
\* the last candle isPlaying is reset, and the effect of that render leaves no
\* timeout; otherwise a new timeout is armed
TimerEffect(cursor, playing, length) ==
  IF ~playing \/ length = 0 THEN [isPlaying |-> playing, timerRef |-> FALSE]
  ELSE IF cursor >= length - 1 THEN [isPlaying |-> FALSE, timerRef |-> FALSE]
  ELSE [isPlaying |-> TRUE, timerRef |-> TRUE]

\* a call that sets the states to cursor and playing: a render and the effect
\* follow only if a state has changed; pending tells whether the timeout of
\* timerRef is still to fire if they do not
Rendered(call, cursor, playing, pending) ==
  /\ lastCall' = call
  /\ cursorBefore' = cursorIndex
  /\ cursorIndex' = cursor
  /\ IF cursor = cursorIndex /\ playing = isPlaying
       THEN /\ timerRef' = pending
            /\ UNCHANGED isPlaying
       ELSE /\ isPlaying' = TimerEffect(cursor, playing, Len(playbackCandles)).isPlaying
            /\ timerRef' = TimerEffect(cursor, playing, Len(playbackCandles)).timerRef
  /\ UNCHANGED <<playbackCandles, windowSize>>

PlaybackInit ==
  /\ playbackCandles \in {[i \in 1..n |-> i] : n \in 1..MaxPlayback}
  /\ windowSize \in 1..MaxWindow
  /\ cursorIndex = Len(playbackCandles) - 1
  /\ isPlaying = FALSE
  /\ timerRef = FALSE
  /\ lastCall = "none"
  /\ cursorBefore = Len(playbackCandles) - 1
  /\ inputDone = FALSE

\* no controller is mounted
PlaybackIdle ==
  /\ playbackCandles = <<>>
  /\ windowSize = 1
  /\ cursorIndex = 0
  /\ isPlaying = FALSE
  /\ timerRef = FALSE
  /\ lastCall = "none"
  /\ cursorBefore = 0
  /\ inputDone = FALSE

\* last: no call follows this one
play(last) ==
  /\ ~inputDone
  /\ inputDone' = last
  /\ Rendered("play", cursorIndex, TRUE, timerRef)

pause ==
  /\ ~inputDone
  /\ Rendered("pause", cursorIndex, FALSE, timerRef)
  /\ UNCHANGED inputDone

togglePlay ==
  /\ ~inputDone
  /\ Rendered("togglePlay", cursorIndex, ~isPlaying, timerRef)
  /\ UNCHANGED inputDone

stepForward ==
  /\ ~inputDone
  /\ Rendered("stepForward", Min(cursorIndex + 1, Len(playbackCandles) - 1), FALSE, timerRef)
  /\ UNCHANGED inputDone

stepBackward ==
  /\ ~inputDone
  /\ Rendered("stepBackward", Max(0, cursorIndex - 1), FALSE, timerRef)
  /\ UNCHANGED inputDone

jumpTo(index) ==
  /\ ~inputDone
  /\ Rendered("jumpTo", Clamped(index, Len(playbackCandles)), FALSE, timerRef)
  /\ UNCHANGED inputDone

\* the timeout fires
Tick ==
  /\ timerRef
  /\ Rendered("tick", Min(cursorIndex + 1, Len(playbackCandles) - 1), isPlaying, FALSE)
  /\ UNCHANGED inputDone

\* the state of App and of its services
appVars == <<feedVars, wsVars, playVars>>
AppIdle == FeedIdle /\ WsIdle /\ PlaybackIdle

vars == <<mgrVars, legacyVars, customVars, remapVars, projVars, chartVars, hitVars, lifeVars, hookVars, selVars, appVars>>

Init == MgrInit /\ LegacyInit /\ CustomInit /\ RemapIdle /\ ProjIdle /\ ChartIdle /\ HitIdle /\ LifeInit /\ HookIdle /\ SelIdle /\ AppIdle

\* ChartDrawingManager
MgrOnly == UNCHANGED <<legacyVars, customVars, remapVars, projVars, chartVars, hitVars, lifeVars, hookVars, selVars, appVars>>

Next ==
  \/ MgrOnly /\ \E tool \in ToolbarTools : SetTool(tool)
  \/ MgrOnly /\ \E list \in HostLists(interval) : LoadDrawings(list)
  \/ MgrOnly /\ \E id \in {"d1"} : RemoveDrawing(id)
  \/ MgrOnly /\ ClearAll
  \/ MgrOnly /\ \E meta \in BOOLEAN, shift \in BOOLEAN, key \in Keys : KeyDown(meta, shift, key)
  \/ MgrOnly /\ \E meta \in BOOLEAN, shift \in BOOLEAN : KeyUp(meta, shift)
  \/ MgrOnly /\ Blur
  \/ MgrOnly /\ DeleteButtonClick
  \/ MgrOnly /\ CloseButtonClick
  \/ MgrOnly /\ \E pt \in PointerEvents : OnChartClick(pt)
  \/ MgrOnly /\ \E pt \in PointerEvents : OnChartDblClick(pt)
  \/ MgrOnly /\ \E pt \in PointerEvents : OnChartMove(pt)

Spec == Init /\ [][Next]_vars

\* the ChartDrawingManager of frontend/src/utils
LegacyOnly == UNCHANGED <<mgrOwn, customVars, remapVars, projVars, chartVars, hitVars, lifeVars, hookVars, selVars, appVars>>

NextLegacy ==
  \/ LegacyOnly /\ \E tool \in Tools : LegacySetTool(tool)
  \/ LegacyOnly /\ \E list \in HostLists(interval) : LegacyLoadDrawings(list)
  \/ LegacyOnly /\ \E id \in {"d1"} : LegacyRemoveDrawing(id)
  \/ LegacyOnly /\ LegacyClearAll
  \/ LegacyOnly /\ \E pt \in PointerEvents : LegacyMouseDown(pt)
  \/ LegacyOnly /\ \E pt \in PointerEvents : LegacyMouseMove(pt)

SpecLegacy == Init /\ [][NextLegacy]_vars

\* CustomChartDrawing
CustomOnly == UNCHANGED <<mgrOwn, legacyVars, remapVars, projVars, chartVars, hitVars, lifeVars, hookVars, selVars, appVars>>

NextCustom ==
  \/ CustomOnly /\ \E tool \in ToolbarTools : CustomSetTool(tool)
  \/ CustomOnly /\ CustomDrawDrawing(CustomHostLine)
  \/ CustomOnly /\ \E id \in {"d1"} \cup NewIds : CustomRemoveDrawing(id)
  \/ CustomOnly /\ CustomClearAll
  \/ CustomOnly /\ \E pt \in PointerEvents : CustomClick(pt)
  \/ CustomOnly /\ \E pt \in PointerEvents : CustomMouseMove(pt)
  \/ CustomOnly /\ CustomFrame

SpecCustom == Init /\ [][NextCustom]_vars

\* interval switches
InitRemap == MgrInit /\ LegacyInit /\ CustomInit /\ RemapInit /\ ProjIdle /\ ChartIdle /\ HitIdle /\ LifeInit /\ HookIdle /\ SelIdle /\ AppIdle

NextRemap ==
  /\ UNCHANGED <<mgrVars, legacyVars, customVars, projVars, chartVars, hitVars, lifeVars, hookVars, selVars, appVars>>
  /\ \E toIv \in Intervals : SwitchInterval(toIv)

SpecRemap == InitRemap /\ [][NextRemap]_vars

\* projection of points to the screen
InitProj == MgrInit /\ LegacyInit /\ CustomInit /\ RemapIdle /\ ProjInit /\ ChartIdle /\ HitIdle /\ LifeInit /\ HookIdle /\ SelIdle /\ AppIdle

ProjOnly == UNCHANGED <<mgrVars, legacyVars, customVars, remapVars, chartVars, hitVars, lifeVars, hookVars, selVars, appVars>>

NextProj ==
  \/ ProjOnly /\ \E p \in ProjectedPoints(projChart, projInterval) : ToScreen(p)
  \/ ProjOnly /\ \E p \in ProjectedPoints(projChart, projInterval) : CustomToScreen(p)

SpecProj == InitProj /\ [][NextProj]_vars

\* ChartDrawingManager on a chart with or without candles, every pointer event
\* noting whether its pixel could be mapped
InitInput == MgrInit /\ LegacyInit /\ CustomInit /\ RemapIdle /\ ProjIdle /\ ChartInit /\ HitIdle /\ LifeInit /\ HookIdle /\ SelIdle /\ AppIdle

InputOnly == UNCHANGED <<legacyVars, customVars, remapVars, projVars, candlesLoaded, hitVars, lifeVars, hookVars, selVars, appVars>>

Mapped == InputOnly /\ unmapped' = FALSE

NextInput ==
  \/ Mapped /\ \E tool \in ToolbarTools : SetTool(tool)
  \/ Mapped /\ \E list \in HostLists(interval) : LoadDrawings(list)
  \/ Mapped /\ \E meta \in BOOLEAN, shift \in BOOLEAN, key \in Keys : KeyDown(meta, shift, key)
  \/ Mapped /\ \E meta \in BOOLEAN, shift \in BOOLEAN : KeyUp(meta, shift)
  \/ InputOnly /\ \E pt \in PointerEvents :
        /\ OnChartClick(pt)
        /\ unmapped' = (pt.has /\ currentTool # "none" /\ Unmappable(Chart, pt.x, pt.y))
  \/ InputOnly /\ \E pt \in PointerEvents :
        /\ OnChartMove(pt)
        /\ unmapped' = (pt.has /\ currentTool # "none" /\ Unmappable(Chart, pt.x, pt.y))

SpecInput == InitInput /\ [][NextInput]_vars

\* body hit tests
InitHit == MgrInit /\ LegacyInit /\ CustomInit /\ RemapIdle /\ ProjIdle /\ ChartIdle /\ HitInit /\ LifeInit /\ HookIdle /\ SelIdle /\ AppIdle

NextHit ==
  /\ UNCHANGED <<mgrVars, legacyVars, customVars, remapVars, projVars, chartVars, lifeVars, hookVars, selVars, appVars>>
  /\ \E sx \in HitXs, sy \in HitYs : HitTestShape(sx, sy)

SpecHit == InitHit /\ [][NextHit]_vars

\* the line tool and the snapping modifier: drawing a line, and selecting and
\* editing the line the host has loaded
InitSnap ==
  /\ SnapInit /\ LegacyInit /\ CustomInit /\ RemapIdle /\ ProjIdle /\ ChartIdle /\ HitIdle
  /\ LifeInit /\ HookIdle /\ SelIdle /\ AppIdle

NextSnap ==
  \/ MgrOnly /\ \E tool \in {"none", "line"} : SetTool(tool)
  \/ MgrOnly /\ \E meta \in BOOLEAN, shift \in {FALSE}, key \in {"a"} : KeyDown(meta, shift, key)
  \/ MgrOnly /\ \E pt \in SnapPointers : OnChartClick(pt)
  \/ MgrOnly /\ \E pt \in SnapPointers : OnChartMove(pt)

SpecSnap == InitSnap /\ [][NextSnap]_vars

\* select mode on a Store of a line and a rectangle: selecting and editing them
InitFrame ==
  /\ SelectInit /\ drawings = <<HostLine("1m"), Box>>
  /\ LegacyInit /\ CustomInit /\ RemapIdle /\ ProjIdle /\ ChartIdle /\ HitIdle
  /\ LifeInit /\ HookIdle /\ SelIdle /\ AppIdle

NextFrame ==
  \/ MgrOnly /\ \E meta \in BOOLEAN, shift \in BOOLEAN, key \in {"a"} : KeyDown(meta, shift, key)
  \/ MgrOnly /\ \E pt \in PointerEvents : OnChartClick(pt)
  \/ MgrOnly /\ \E pt \in PointerEvents : OnChartMove(pt)

SpecFrame == InitFrame /\ [][NextFrame]_vars

\* handle hit tests
InitHandles ==
  /\ MgrInit /\ LegacyInit /\ CustomInit /\ RemapIdle /\ ProjIdle /\ ChartIdle /\ HandleInit
  /\ LifeInit /\ HookIdle /\ SelIdle /\ AppIdle

NextHandles ==
  /\ UNCHANGED <<mgrVars, legacyVars, customVars, remapVars, projVars, chartVars, lifeVars,
                 hookVars, selVars, appVars>>
  /\ \E sx \in HandleXs, sy \in HandleYs : HitTestHandles(sx, sy)

SpecHandles == InitHandles /\ [][NextHandles]_vars

\* life cycle of ChartDrawingManager
LifeOnly == UNCHANGED <<legacyVars, customVars, remapVars, projVars, chartVars, hitVars, hookVars, selVars, appVars>>

NextLife ==
  \/ LifeOnly /\ Called /\ \E tool \in ToolbarTools : SetTool(tool)
  \/ LifeOnly /\ Called /\ \E list \in HostLists(interval) : LoadDrawings(list)
  \/ LifeOnly /\ Delivered("click") /\ \E pt \in PointerEvents : OnChartClick(pt)
  \/ LifeOnly /\ Delivered("dblClick") /\ \E pt \in PointerEvents : OnChartDblClick(pt)
  \/ LifeOnly /\ Delivered("crosshairMove") /\ \E pt \in PointerEvents : OnChartMove(pt)
  \/ LifeOnly /\ Delivered("keydown")
       /\ \E meta \in BOOLEAN, shift \in BOOLEAN, key \in Keys : KeyDown(meta, shift, key)
  \/ LifeOnly /\ Delivered("keyup") /\ \E meta \in BOOLEAN, shift \in BOOLEAN : KeyUp(meta, shift)
  \/ LifeOnly /\ Delivered("blur") /\ Blur
  \/ LifeOnly /\ Frame
  \/ LifeOnly /\ \E sub \in RangeSubscriptions : RangeChange(sub)
  \/ LifeOnly /\ Resize
  \/ LifeOnly /\ Destroy

SpecLife == Init /\ [][NextLife]_vars

\* the hook and the Gateway
HookOnly == UNCHANGED <<mgrVars, legacyVars, customVars, remapVars, projVars, chartVars,
                        hitVars, lifeVars, selVars, appVars>>

NextHook ==
  \/ HookOnly /\ \E symbol \in Symbols, iv \in HookIntervals : ChangePairing(symbol, iv)
  \/ HookOnly /\ \E id \in NewIds : addDrawing(id)
  \/ HookOnly /\ \E id \in NewIds : removeDrawing(id)
  \/ HookOnly /\ \E r \in AllRequests : LoadResolves(r)
  \/ HookOnly /\ \E r \in AllRequests : LoadRejects(r)
  \/ HookOnly /\ \E r \in AllRequests : SaveResolves(r)
  \/ HookOnly /\ \E r \in AllRequests : SaveRejects(r)
  \/ HookOnly /\ \E r \in AllRequests : DeleteResolves(r)
  \/ HookOnly /\ \E r \in AllRequests : DeleteRejects(r)

InitHook ==
  /\ MgrInit /\ LegacyInit /\ CustomInit /\ RemapIdle /\ ProjIdle /\ ChartIdle /\ HitIdle
  /\ LifeInit /\ HookInit /\ SelIdle /\ AppIdle

SpecHook == InitHook /\ [][NextHook]_vars

\* the manager with its callbacks wired to the hook: onDrawingComplete to addDrawing,
\* onRemoveDrawing to removeDrawing.  A handler of the manager calls them and goes
\* on without waiting; the calls settle in later steps.
PersistOnly == UNCHANGED <<legacyVars, customVars, remapVars, projVars, chartVars, hitVars,
                           lifeVars, selVars, appVars>>

Completes(t) == { k \in DOMAIN t : t[k].cb = "onDrawingComplete" }
Removes(t) == { k \in DOMAIN t : t[k].cb = "onRemoveDrawing" }

\* the Gateway calls the callbacks of the trace t start
IssuedBy(t) ==
  { Request("save", t[k].drawing.id, hookSymbol, hookInterval) : k \in Completes(t) }
    \cup { Request("delete", t[k].id, hookSymbol, hookInterval) : k \in Removes(t) }

Issues ==
  /\ requests' = requests \cup IssuedBy(trace')
  /\ thrown' = FALSE
  /\ UNCHANGED <<hookSymbol, hookInterval, hookDrawings, hookLoading, hookError, gateway>>

Settles == PersistOnly /\ UNCHANGED mgrVars

NextPersist ==
  \/ PersistOnly /\ (\E tool \in ToolbarTools : SetTool(tool)) /\ Issues
  \/ PersistOnly /\ (\E list \in HostLists(interval) : LoadDrawings(list)) /\ Issues
  \/ PersistOnly /\ (\E pt \in PointerEvents : OnChartClick(pt)) /\ Issues
  \/ PersistOnly
       /\ (\E meta \in BOOLEAN, shift \in BOOLEAN, key \in Keys : KeyDown(meta, shift, key))
       /\ Issues
  \/ PersistOnly /\ DeleteButtonClick /\ Issues
  \/ Settles /\ \E r \in AllRequests : SaveResolves(r)
  \/ Settles /\ \E r \in AllRequests : SaveRejects(r)
  \/ Settles /\ \E r \in AllRequests : DeleteResolves(r)
  \/ Settles /\ \E r \in AllRequests : DeleteRejects(r)

SpecPersist == Init /\ [][NextPersist]_vars

\* select mode on a Store of one or two annotations
InitSelect ==
  /\ SelectInit /\ LegacyInit /\ CustomInit /\ RemapIdle /\ ProjIdle /\ ChartIdle /\ HitIdle
  /\ LifeInit /\ HookIdle /\ SelIdle /\ AppIdle

SelectOnly == UNCHANGED <<legacyVars, customVars, remapVars, projVars, chartVars, hitVars,
                          lifeVars, hookVars, appVars>>

NextSelect ==
  \/ SelectOnly /\ lastInput' = "click" /\ before' = Selection
       /\ \E pt \in SelectPointers : OnChartClick(pt) /\ Hits(pt)
  \/ SelectOnly /\ lastInput' = "dblclick" /\ before' = Selection
       /\ \E pt \in SelectPointers : OnChartDblClick(pt) /\ Hits(pt)
  \/ SelectOnly /\ lastInput' = "key" /\ before' = Selection /\ UNCHANGED lastHit
       /\ \E meta \in BOOLEAN, shift \in BOOLEAN, key \in Keys : KeyDown(meta, shift, key)
  \/ SelectOnly /\ lastInput' = "close" /\ before' = Selection /\ UNCHANGED lastHit
       /\ CloseButtonClick

SpecSelect == InitSelect /\ [][NextSelect]_vars

\* select mode on a Store of one line or one rectangle: selecting, editing and
\* deleting it, while the host may remove it or empty the Store
InitEdit ==
  /\ EditInit /\ LegacyInit /\ CustomInit /\ RemapIdle /\ ProjIdle /\ ChartIdle /\ HitIdle
  /\ LifeInit /\ HookIdle /\ SelIdle /\ AppIdle

EditOnly ==
  /\ UNCHANGED <<legacyVars, customVars, remapVars, projVars, chartVars, hitVars,
                 lifeVars, hookVars, lastHit, appVars>>
  /\ before' = Selection

NextEdit ==
  \/ EditOnly /\ lastInput' = "click" /\ \E pt \in PointerEvents : OnChartClick(pt)
  \/ EditOnly /\ lastInput' = "move" /\ \E pt \in PointerEvents : OnChartMove(pt)
  \/ EditOnly /\ lastInput' = "key"
       /\ \E meta \in BOOLEAN, shift \in BOOLEAN, key \in Keys : KeyDown(meta, shift, key)
  \/ EditOnly /\ lastInput' = "keyup"
       /\ \E meta \in BOOLEAN, shift \in BOOLEAN : KeyUp(meta, shift)
  \/ EditOnly /\ lastInput' = "delete" /\ DeleteButtonClick
  \/ EditOnly /\ lastInput' = "removeDrawing" /\ \E id \in {"d1"} : RemoveDrawing(id)
  \/ EditOnly /\ lastInput' = "clearAll" /\ ClearAll
  \/ EditOnly /\ lastInput' = "loadDrawings" /\ \E list \in {<<>>} : LoadDrawings(list)

SpecEdit == InitEdit /\ [][NextEdit]_vars

(***************************************************************************)
(* Properties of ChartDrawingManager, checked under Spec                   *)
(***************************************************************************)
\* C1: with a tool armed and no modifier held, the first click starts the gesture
\* at the point it resolves to and calls nothing back; a second click resolving to
\* another time calls the completion callback exactly once, with a drawing of the
\* armed tool whose points and basePoints are the two points in click order and
\* whose baseInterval is the active interval.
C1_TwoClicksCreateOne ==
  [][\A pt \in PointerEvents :
       (/\ pt.has /\ currentTool # "none" /\ ~metaDown /\ ~shiftDown
        /\ screenToChartPoint(Chart, interval, pt.x, pt.y) # NoPoint
        /\ OnChartClick(pt))
       => IF ~isDrawing
            THEN /\ isDrawing'
                 /\ startPoint' = screenToChartPoint(Chart, interval, pt.x, pt.y)
                 /\ trace' = <<>>
            ELSE (/\ startPoint # NoPoint
                  /\ screenToChartPoint(Chart, interval, pt.x, pt.y).time # startPoint.time)
                 => /\ Len(trace') = 1
                    /\ trace'[1].cb = "onDrawingComplete"
                    /\ trace'[1].drawing.tool = currentTool
                    /\ trace'[1].drawing.points
                         = <<startPoint, screenToChartPoint(Chart, interval, pt.x, pt.y)>>
                    /\ trace'[1].drawing.hasBase
                    /\ trace'[1].drawing.basePoints = trace'[1].drawing.points
                    /\ trace'[1].drawing.baseInterval = interval
  ]_vars

\* a gesture between two different times has just completed, no modifier held
C1_Completed ==
  /\ Len(trace) = 1
  /\ trace[1].cb = "onDrawingComplete"
  /\ trace[1].drawing.points[1].time > trace[1].drawing.points[2].time
  /\ ~metaDown /\ ~shiftDown
  /\ currentTool = "none"

\* C3: a drawing handed to the completion callback is in the drawings Map as soon
\* as the finalizing click has been handled.
C3_CreatedIsStored ==
  \A i \in 1..Len(trace) :
     trace[i].cb = "onDrawingComplete" => StoreHas(drawings, trace[i].drawing.id)

\* C5: the manager is never drawing and editing at the same time.
C5_NeverDrawingAndEditing == ~(isDrawing /\ isEditing)

\* C6: a setTool that changes the tool while a gesture is in progress cancels the
\* gesture: isDrawing is false, startPoint and the preview point are cleared.
C6_SetToolCancels ==
  [][\A tool \in ToolbarTools :
       (isDrawing /\ tool # currentTool /\ SetTool(tool))
       => (~isDrawing' /\ startPoint' = NoPoint /\ currentMousePoint' = NoPoint)
  ]_vars

\* C7: clearAll empties the drawings Map and leaves no gesture in progress, no
\* preview point, nothing selected and nothing being edited.
C7_ClearAllResets ==
  [][ClearAll
       => /\ drawings' = <<>>
          /\ ~isDrawing' /\ startPoint' = NoPoint /\ currentMousePoint' = NoPoint
          /\ selectedId' = NoId /\ ~isEditing' /\ editingHandle' = "none"
  ]_vars

\* the selected drawing has been deleted by this step: it is out of the Map, the
\* remove callback was called once, with its id, and nothing is selected or edited
DeletedSelected ==
  /\ ~StoreHas(drawings', selectedId)
  /\ Len(SelectSeq(trace', LAMBDA c : c.cb = "onRemoveDrawing")) = 1
  /\ trace'[1] = CallRemove(selectedId)
  /\ selectedId' = NoId
  /\ ~isEditing' /\ editingHandle' = "none"

C2_SamePointClickDiscarded ==
  [][\A pt \in PointerEvents :
       (/\ pt.has /\ customTool # "none" /\ customIsDrawing /\ customStartPoint # NoPoint
        /\ CustomPoint(Chart, secondsForInterval(interval), pt.x, pt.y).found
        /\ IsDegenerate(customStartPoint, CustomPoint(Chart, secondsForInterval(interval), pt.x, pt.y))
        /\ CustomClick(pt))
       => /\ trace' = <<>>
          /\ customDrawings' = customDrawings
          /\ ~customIsDrawing'
          /\ customStartPoint' = NoPoint
          /\ customCurrentPoint' = NoPoint
  ]_vars

\* C4: right after a click of the frontend/src/utils manager that completes a
\* drawing, no gesture is in progress, startPoint is null and the tool is none.
C4_IdleAndDisarmedAfterCreate ==
  [][\A pt \in PointerEvents :
       (pt.has /\ legacyIsDrawing /\ LegacyMouseDown(pt) /\ trace' # <<>>)
       => (~legacyIsDrawing' /\ legacyStartPoint' = NoPoint /\ legacyTool' = "none")
  ]_vars

(***************************************************************************)
(* Properties of the interval remapper, checked under SpecRemap            *)
(***************************************************************************)
\* C9: after any sequence of interval switches the drawing has the points a
\* direct load of the authored drawing under the last interval gives, and back
\* under the authored interval it has exactly the authored points.
C9_PathIndependent ==
  switches # <<>> =>
    /\ shown.points = transformDrawingForCurrentInterval(authored, switches[Len(switches)]).points
    /\ switches[Len(switches)] = authored.interval => shown.points = authored.points

\* the drawing went to another interval, where its points changed, and came back
C9_RoundTrip ==
  /\ Len(switches) = 2
  /\ switches[1] # authored.interval
  /\ switches[2] = authored.interval
  /\ loadDrawings(<<authored>>, switches[1])[1].points # authored.points
  /\ shown.points = authored.points

\* C10: mapping a time from an interval to the same interval returns the time,
\* for the start and for the end handle, so a drawing loaded under its own
\* baseInterval has its basePoints as points.
C10_SameIntervalIdentity ==
  /\ \A iv \in Intervals, i \in {1, 2}, isEnd \in BOOLEAN :
        mapTimeAcrossIntervals(authored.points[i].time, iv, iv, isEnd) = authored.points[i].time
  /\ (switches # <<>> /\ shown.interval = BaseIntervalOf(shown)) => shown.points = BasePointsOf(shown)

\* a drawing with a point off the bar grid has been loaded under its own baseInterval
C10_LoadedUnderOwnInterval ==
  /\ switches # <<>>
  /\ shown.interval = BaseIntervalOf(shown)
  /\ shown.basePoints[1].time % secondsForInterval(shown.interval) # 0
  /\ shown.points = shown.basePoints

\* the drawing as the manager before the last switch showed it
ShownBefore ==
  IF Len(switches) < 2 THEN authored
  ELSE loadDrawings(<<loadDrawings(<<authored>>, switches[1])[1]>>, switches[Len(switches) - 1])[1]

\* C11: mapped to a coarser interval, a time becomes the start of the coarser bar
\* that contains it, floor(time / toSeconds) * toSeconds, for the start and for
\* the end handle alike, and the prices of the drawing are not changed.
C11_CoarserFloors ==
  /\ \A iv \in Intervals, i \in {1, 2}, isEnd \in BOOLEAN :
        secondsForInterval(iv) > secondsForInterval(authored.interval) =>
          mapTimeAcrossIntervals(authored.points[i].time, authored.interval, iv, isEnd)
            = (authored.points[i].time \div secondsForInterval(iv)) * secondsForInterval(iv)
  /\ (switches # <<>> /\ secondsForInterval(shown.interval) > secondsForInterval(authored.interval)) =>
        \A i \in {1, 2} :
          /\ shown.points[i].time
               = (authored.points[i].time \div secondsForInterval(shown.interval))
                   * secondsForInterval(shown.interval)
          /\ shown.points[i].price = authored.points[i].price

\* a 1m drawing with both points at 3723 is shown under 1h with both at 3600
C11_Coarsened ==
  /\ authored.interval = "1m"
  /\ authored.points[1].time = ExampleTime /\ authored.points[2].time = ExampleTime
  /\ switches = <<"1h">>
  /\ shown.points[1].time = 3600 /\ shown.points[2].time = 3600

\* C12: mapped to a finer interval, the start point becomes the start of the
\* source bar that contains it, bucketStart = floor(time / fromSeconds) * fromSeconds,
\* and the end point becomes the last finer bar of its source bar,
\* bucketStart + (fromSeconds - toSeconds).
C12_FinerStartAndEnd ==
  (switches # <<>> /\ secondsForInterval(shown.interval) < secondsForInterval(authored.interval)) =>
    /\ shown.points[1].time
         = (authored.points[1].time \div secondsForInterval(authored.interval))
             * secondsForInterval(authored.interval)
    /\ shown.points[2].time
         = (authored.points[2].time \div secondsForInterval(authored.interval))
             * secondsForInterval(authored.interval)
           + (secondsForInterval(authored.interval) - secondsForInterval(shown.interval))

\* a 1h drawing from 3600 to a later time of the same hour is shown under 1m
\* from 3600 to 7140
C12_Refined ==
  /\ authored.interval = "1h"
  /\ authored.points[1].time = 3600
  /\ authored.points[2].time > 3600 /\ authored.points[2].time < 7200
  /\ switches = <<"1m">>
  /\ shown.points[1].time = 3600 /\ shown.points[2].time = 7140

\* C13: a switch of interval leaves the id, the tool, the colour, the base points
\* and the base interval of the drawing as they were, sets its interval to the
\* active one, and computes its points from the base points and the base
\* interval, whatever points were shown before.
C13_RemapFrame ==
  [][\A toIv \in Intervals :
       SwitchInterval(toIv) =>
         /\ shown'.id = shown.id /\ shown'.tool = shown.tool /\ shown'.color = shown.color
         /\ shown'.hasBase
         /\ shown'.basePoints = BasePointsOf(shown)
         /\ shown'.baseInterval = BaseIntervalOf(shown)
         /\ shown'.basePoints = authored.points
         /\ shown'.baseInterval = authored.interval
         /\ shown'.interval = toIv
         /\ shown'.points
              = << [time  |-> mapTimeAcrossIntervals(BasePointsOf(shown)[1].time,
                                                     BaseIntervalOf(shown), toIv, FALSE),
                    price |-> BasePointsOf(shown)[1].price],
                   [time  |-> mapTimeAcrossIntervals(BasePointsOf(shown)[2].time,
                                                     BaseIntervalOf(shown), toIv, TRUE),
                    price |-> BasePointsOf(shown)[2].price] >>
  ]_vars

\* after two switches the drawing shows points that differ from what mapping the
\* points shown after the first switch would give, and its base is the authored one
C13_BaseKept ==
  /\ Len(switches) = 2
  /\ ShownBefore.points # authored.points
  /\ shown.points # transformFromDisplayed(ShownBefore, switches[2]).points
  /\ shown.basePoints = authored.points
  /\ shown.baseInterval = authored.interval

(***************************************************************************)
(* Properties of the projection to the screen, checked under SpecProj      *)
(***************************************************************************)
\* bars between the last candle and the projected point, when a whole number
BarsAhead ==
  (projPoint.time - getLastCandleTime(projChart)) \div secondsForInterval(projInterval)

\* the projected point lies a whole number N > 0 of bars right of the last candle
\* and the time scale has no coordinate for it
IsAhead ==
  /\ projPoint # NoPoint
  /\ projPoint.time > getLastCandleTime(projChart)
  /\ (projPoint.time - getLastCandleTime(projChart)) % secondsForInterval(projInterval) = 0
  /\ timeToCoordinate(projChart, projPoint.time) = NoX

\* C14: a point N > 0 bars to the right of the last candle, for which the time
\* scale has no coordinate, is projected to x = referenceX + N * barSpacing exactly,
\* referenceX being the x of the last candle and barSpacing the pixels per bar of
\* the chart.
C14_ExtrapolatedX ==
  (projEngine = "manager" /\ IsAhead) =>
    /\ projected.ok
    /\ projected.xn * projChart.sub
         = (timeToCoordinate(projChart, getLastCandleTime(projChart))
              + BarsAhead * projChart.spacing) * projected.den

\* C14 for CustomChartDrawing.pointToCoordinate
C14_CustomExtrapolatedX ==
  (projEngine = "custom" /\ IsAhead) =>
    /\ projected.ok
    /\ projected.xn * projChart.sub
         = (timeToCoordinate(projChart, getLastCandleTime(projChart))
              + BarsAhead * projChart.spacing) * projected.den

\* with a bar spacing of more than half a pixel the manager projects the point to
\* referenceX + N * barSpacing
C14_ExtrapolatedWide ==
  (projEngine = "manager" /\ IsAhead /\ 2 * projChart.spacing > projChart.sub) =>
    /\ projected.ok
    /\ projected.xn * projChart.sub
         = (timeToCoordinate(projChart, getLastCandleTime(projChart))
              + BarsAhead * projChart.spacing) * projected.den

(***************************************************************************)
(* Properties of pointer events on unmappable pixels, checked under        *)
(* SpecInput                                                               *)
(***************************************************************************)
\* C15: a click or a move with a tool armed on a pixel that cannot be mapped to a
\* chart point (no price, or no time and no reference bar) is ignored: nothing is
\* called back, no point is taken, and isDrawing, startPoint, the tool, the
\* preview point, the selection and the store stay as they were.
C15_UnmappableIgnored ==
  [][\A pt \in PointerEvents :
       (/\ pt.has /\ currentTool # "none" /\ Unmappable(Chart, pt.x, pt.y)
        /\ (OnChartClick(pt) \/ OnChartMove(pt)))
       => /\ trace' = <<>>
          /\ UNCHANGED <<interval, drawings, isDrawing, startPoint, currentMousePoint, currentTool,
                         selectedId, isEditing, editingHandle, metaDown, shiftDown, popupVisible>>
  ]_vars

\* a click or move was ignored in the middle of a gesture because the pixel has no price
C15_IgnoredNoPrice ==
  /\ unmapped /\ candlesLoaded
  /\ isDrawing /\ startPoint # NoPoint /\ currentTool # "none"
  /\ drawings # <<>>

\* a click or move was ignored because the chart has no bar to take a time from
C15_IgnoredNoTime ==
  /\ unmapped /\ ~candlesLoaded
  /\ ~isDrawing /\ startPoint = NoPoint /\ currentTool # "none"

(***************************************************************************)
(* Properties of the body hit test, checked under SpecHit                  *)
(***************************************************************************)
\* the shape i of the store and the asked pixel, on the screen
HitProjected(i) ==
  Projected(MainChart("1m"), "1m", hitStore[i], hitPixel.x, hitPixel.y)

IsLineOrRectangle(i) == hitStore[i].tool \in {"line", "rectangle"}

\* the pixel is the midpoint of the two projected points
AtMidpoint(g) ==
  /\ g.ok
  /\ 2 * g.px = g.x1 + g.x2
  /\ 2 * g.py = g.y1 + g.y2

\* the pixel lies threshold + 1 pixels outside the shape: from the segment of a
\* line, from a side of the bounding box of a rectangle
BeyondBy(d, g, seg) ==
  /\ g.ok
  /\ \/ /\ d.tool = "line"
        /\ seg.num = (ShapeThreshold + 1) * (ShapeThreshold + 1) * g.D * g.D * seg.den
     \/ /\ d.tool = "rectangle"
        /\ \/ g.px = Min(g.x1, g.x2) - (ShapeThreshold + 1) * g.D
           \/ g.px = Max(g.x1, g.x2) + (ShapeThreshold + 1) * g.D
           \/ g.py = Min(g.y1, g.y2) - (ShapeThreshold + 1) * g.D
           \/ g.py = Max(g.y1, g.y2) + (ShapeThreshold + 1) * g.D

\* C16: for a line or a rectangle whose two points project to the screen, the
\* body hit test returns its id at the midpoint of the projected points, whatever
\* else is in the store, and does not return its id at a pixel threshold + 1
\* pixels outside the shape.
C16_MidpointHitsBeyondMisses ==
  hitPixel.has =>
    \A i \in 1..Len(hitStore) :
      IsLineOrRectangle(i) =>
        /\ AtMidpoint(HitProjected(i)) => hitBody = hitStore[i].id
        /\ BeyondBy(hitStore[i], HitProjected(i), SegmentOf(HitProjected(i)))
             => hitBody # hitStore[i].id

\* C16 with the order of the store: at the midpoint of a line or rectangle the
\* body hit test returns the id of the first shape of the store that is hit there,
\* which is the shape itself when no shape loaded before it is hit; at a pixel
\* threshold + 1 pixels outside the shape it does not return its id.
C16_FirstHitAtMidpoint ==
  hitPixel.has =>
    \A i \in 1..Len(hitStore) :
      IsLineOrRectangle(i) =>
        /\ AtMidpoint(HitProjected(i)) =>
             /\ hitBody \in {hitStore[j].id : j \in 1..i}
             /\ (\A j \in 1..(i - 1) :
                   ~ShapeHit(MainChart("1m"), "1m", hitStore[j], hitPixel.x, hitPixel.y))
                  => hitBody = hitStore[i].id
             /\ \A j \in 1..(i - 1) :
                   (hitBody = hitStore[j].id /\ j < i)
                     => ShapeHit(MainChart("1m"), "1m", hitStore[j], hitPixel.x, hitPixel.y)
        /\ BeyondBy(hitStore[i], HitProjected(i), SegmentOf(HitProjected(i)))
             => hitBody # hitStore[i].id

\* the only shape of the store, a slanted line, was asked about at its midpoint
\* and its id was returned
C16_MidpointHit ==
  /\ hitPixel.has
  /\ Len(hitStore) = 1
  /\ hitStore[1].tool = "line"
  /\ hitStore[1].points[1].time # hitStore[1].points[2].time
  /\ hitStore[1].points[1].price # hitStore[1].points[2].price
  /\ AtMidpoint(HitProjected(1))
  /\ hitBody = "d1"

\* a rectangle was asked about threshold + 1 pixels outside one of its sides, at
\* the height of its middle, and nothing was returned
C16_BeyondMissed ==
  /\ hitPixel.has
  /\ Len(hitStore) = 1
  /\ hitStore[1].tool = "rectangle"
  /\ HitProjected(1).px = Max(HitProjected(1).x1, HitProjected(1).x2)
                             + (ShapeThreshold + 1) * HitProjected(1).D
  /\ 2 * HitProjected(1).py = HitProjected(1).y1 + HitProjected(1).y2
  /\ hitBody = NoId

\* the square of the distance from the pixel of the projection g to a handle
HandleDistance(g, handle) ==
  IF handle = "start" THEN SqDist(g.x1, g.y1, g.px, g.py) ELSE SqDist(g.x2, g.y2, g.px, g.py)

OtherHandle(handle) == IF handle = "start" THEN "end" ELSE "start"

\* the handles of the projected drawing within the threshold of the pixel and at
\* least as near to it as the other handle
HandlesAt(g) ==
  { handle \in {"start", "end"} :
      /\ g.ok
      /\ HandleDistance(g, handle) <= HandleThreshold * HandleThreshold * g.D * g.D
      /\ HandleDistance(g, handle) <= HandleDistance(g, OtherHandle(handle)) }

\* the handles of the one loaded drawing the pointer is on
HandlesUnder(pt) ==
  IF Len(drawings) = 1 /\ Len(drawings[1].points) = 2
    THEN HandlesAt(Projected(Chart, interval, drawings[1], pt.x, pt.y))
    ELSE {}

\* C20: with no tool armed, a click on a handle of a drawing that is not selected
\* selects it and edits nothing; a click on a handle of the drawing that is
\* selected and not being edited starts the edit of that handle.
C20_SelectThenEdit ==
  [][\A pt \in PointerEvents :
       (/\ currentTool = "none" /\ pt.has
        /\ trace' = <<CallSelection(selectedId')>> /\ drawings' = drawings
        /\ HandlesUnder(pt) # {} /\ OnChartClick(pt))
         => IF selectedId # drawings[1].id
              THEN selectedId' = drawings[1].id /\ ~isEditing' /\ editingHandle' = "none"
              ELSE ~isEditing =>
                     /\ selectedId' = selectedId
                     /\ isEditing'
                     /\ editingHandle' \in HandlesUnder(pt)]_vars

\* the second click on the start handle of d1 has started its edit
C20_EditingAfterSecondClick ==
  /\ currentTool = "none"
  /\ selectedId = "d1"
  /\ isEditing
  /\ editingHandle = "start"
  /\ trace = <<CallSelection("d1")>>

\* the first click on a handle of d1 has selected it and edits nothing
C20_SelectedAfterFirstClick ==
  /\ currentTool = "none"
  /\ selectedId = "d1"
  /\ ~isEditing
  /\ editingHandle = "none"
  /\ trace = <<CallSelection("d1")>>

(***************************************************************************)
(* Properties of the life cycle, checked under SpecLife                    *)
(***************************************************************************)
\* C17: once destroy() has returned, no pointer, keyboard, range-change, resize
\* or animation-frame event changes the state of the manager or runs a redraw.
C17_DestroyedIsInert ==
  [][destroyed => (UNCHANGED mgrOwn /\ ~redrawn')]_vars

\* once destroy() has returned, no pointer or keyboard event reaches a handler
\* and no animation frame is pending
C17_HandlersReleased ==
  destroyed => (subscriptions \cap HandlerSubscriptions = {} /\ ~framePending)

(***************************************************************************)
(* Properties of useDrawingManager, checked under SpecHook                 *)
(***************************************************************************)
\* C18: once every Gateway call has settled without an error, the drawings the
\* hook holds are exactly the records of the Gateway for the latest (symbol,
\* interval), whatever the order in which the overlapping calls settled.
C18_LatestPairingOnly ==
  (requests = {} /\ hookError = NoError)
    => Range(hookDrawings) = Range(gateway[hookSymbol][hookInterval])

\* a load that resolves for a pairing that is no longer the active one leaves the
\* drawings of the hook as they are
C18_StaleLoadIgnored ==
  [][\A r \in AllRequests :
       (r.kind = "load" /\ <<r.symbol, r.interval>> # <<hookSymbol, hookInterval>>
          /\ LoadResolves(r))
         => hookDrawings' = hookDrawings]_vars

(***************************************************************************)
(* Properties of the manager wired to the hook, checked under SpecPersist  *)
(***************************************************************************)
\* no gesture is in progress
GestureOver ==
  /\ ~isDrawing
  /\ startPoint = NoPoint
  /\ currentMousePoint = NoPoint

\* nothing is selected or edited
NothingSelected ==
  /\ selectedId = NoId
  /\ ~isEditing

\* a handler of the manager has just started a call of this kind
Started(kind) == \E r \in requests' \ requests : r.kind = kind

Settled(r) == SaveResolves(r) \/ SaveRejects(r) \/ DeleteResolves(r) \/ DeleteRejects(r)

\* the state Idle: no gesture, no selection, no edit
Idle == GestureOver /\ NothingSelected

\* what a rejected call leaves behind: the error in the hook, the rejection passed
\* on to the caller, and the manager as it was
Surfaced(r) ==
  /\ (SaveRejects(r) \/ DeleteRejects(r)) => (hookError' # NoError /\ thrown')
  /\ Settled(r) => UNCHANGED mgrOwn

\* C19: when the Gateway rejects a save or a delete, the hook records an error
\* and rethrows, and the Store and the interaction state of the manager are what
\* they were before the call settled, as they are when the call resolves; the
\* handler that started the call left the state machine Idle with the call
\* still in flight.
C19_RejectedLeavesIdle ==
  [][/\ (Started("save") \/ Started("delete")) => Idle'
     /\ \A r \in requests : Surfaced(r)]_vars

\* the part of C19 that holds: the rejection is surfaced and nothing is rolled
\* back; with the call in flight the gesture is over after a save, and nothing is
\* selected or edited after a delete
C19_RejectedNotRolledBack ==
  [][/\ Started("save") => GestureOver'
     /\ Started("delete") => NothingSelected'
     /\ \A r \in requests : Surfaced(r)]_vars

\* a delete was rejected: the hook holds the error, and the drawing that was
\* loaded is still gone from the Store of the manager with nothing selected
C19_RejectedDeleteKept ==
  /\ thrown
  /\ hookError = "Failed to delete drawing"
  /\ drawings = <<>>
  /\ NothingSelected

\* a save was rejected after the gesture had ended and the tool was put down
C19_RejectedSaveIdle ==
  /\ thrown
  /\ hookError = "Failed to save drawing"
  /\ GestureOver
  /\ currentTool = "none"

(***************************************************************************)
(* Properties of select mode, checked under SpecSelect                     *)
(***************************************************************************)
\* the handle hit is another one than the handle the pointer hit before on the
\* selected drawing, or a handle of a drawing that is not the selected one
DifferentHandle(hit) ==
  /\ hit.id # NoId
  /\ \/ hit.id # selectedId
     \/ lastHit.id = selectedId /\ lastHit.handle # hit.handle

\* C21: with no tool armed and a drawing selected, a click on a different handle,
\* the other end of the selected drawing or a handle of another drawing, selects
\* the drawing hit and leaves the manager not editing.
C21_DifferentHandleReselects ==
  [][\A pt \in SelectPointers :
       (/\ pt.has /\ selectedId # NoId
        /\ lastInput' = "click"
        /\ DifferentHandle(hitTestHandles(Chart, interval, drawings, pt.x, pt.y))
        /\ OnChartClick(pt) /\ Hits(pt))
         => (selectedId' = lastHit'.id /\ ~isEditing')]_vars

\* the part of C21 that holds: a click on a handle of a drawing that is not the
\* selected one selects that drawing and leaves the manager not editing
C21_OtherDrawingReselects ==
  [][\A pt \in SelectPointers :
       (/\ pt.has /\ selectedId # NoId
        /\ lastInput' = "click"
        /\ hitTestHandles(Chart, interval, drawings, pt.x, pt.y).id \notin {NoId, selectedId}
        /\ OnChartClick(pt) /\ Hits(pt))
         => (selectedId' = lastHit'.id /\ ~isEditing' /\ editingHandle' = "none")]_vars

\* the projected drawing d has a handle candidate at the pixel: an end point within
\* the handle threshold, or for a line its segment within that threshold
CandidateAt(d, g, seg) ==
  /\ g.ok
  /\ \/ HandleDistance(g, "start") <= HandleThreshold * HandleThreshold * g.D * g.D
     \/ HandleDistance(g, "end") <= HandleThreshold * HandleThreshold * g.D * g.D
     \/ /\ d.tool = "line"
        /\ seg.num <= HandleThreshold * HandleThreshold * g.D * g.D * seg.den

CandidateOf(d, g) == CandidateAt(d, g, SegmentOf(g))

NoCandidate(pt) ==
  \A k \in 1..Len(drawings) :
    ~CandidateOf(drawings[k], Projected(Chart, interval, drawings[k], pt.x, pt.y))

\* the pixel is within the body threshold of the projected line or rectangle d and
\* farther than the handle threshold from both of its end points
BodyOnlyAt(d, g) ==
  /\ d.tool \in {"line", "rectangle"}
  /\ ShapeHitAt(d, g, SegmentOf(g))
  /\ HandleDistance(g, "start") > HandleThreshold * HandleThreshold * g.D * g.D
  /\ HandleDistance(g, "end") > HandleThreshold * HandleThreshold * g.D * g.D

BodyOnly(k, pt) ==
  BodyOnlyAt(drawings[k], Projected(Chart, interval, drawings[k], pt.x, pt.y))

FirstBodyOnly(k, pt) ==
  /\ BodyOnly(k, pt)
  /\ \A j \in 1..(k - 1) : ~BodyOnly(j, pt)

\* C22 as stated: with no tool armed, a click within the body threshold of a line
\* or rectangle and farther than the handle threshold from both of its end points
\* selects that drawing with no handle and not editing, selected before or not.
C22_BodyClickSelects ==
  [][\A pt \in SelectPointers : \A k \in 1..Len(drawings) :
       (/\ pt.has /\ currentTool = "none" /\ lastInput' = "click"
        /\ BodyOnly(k, pt)
        /\ OnChartClick(pt) /\ Hits(pt))
         => (selectedId' = drawings[k].id /\ ~isEditing' /\ editingHandle' = "none")]_vars

\* C22: with no tool armed, a click within the body threshold of a drawing and
\* farther than the handle threshold from both of its end points, at a pixel where
\* no drawing has a handle candidate, selects the first such drawing of the Store
\* with no handle and not editing, selected before or not; at a pixel where some
\* drawing has a handle candidate, as on the body of every line, the click selects
\* a drawing that was not selected without editing, and starts the edit of a
\* selected drawing that was not being edited.
C22_BodyClickWithoutCandidate ==
  [][\A pt \in SelectPointers : \A k \in 1..Len(drawings) :
       (/\ pt.has /\ currentTool = "none" /\ lastInput' = "click"
        /\ FirstBodyOnly(k, pt)
        /\ OnChartClick(pt) /\ Hits(pt))
         => IF NoCandidate(pt)
              THEN /\ drawings[k].tool = "rectangle"
                   /\ selectedId' = drawings[k].id
                   /\ ~isEditing'
                   /\ editingHandle' = "none"
              ELSE /\ selectedId' # NoId
                   /\ selectedId' # selectedId => ~isEditing' /\ editingHandle' = "none"
                   /\ (selectedId' = selectedId /\ ~isEditing) => isEditing']_vars

\* the rectangle was selected by a click on its body while a handle was being edited
C22_BoxSelectedByBody ==
  /\ lastInput = "click"
  /\ before.isEditing
  /\ lastHit = NoHit
  /\ selectedId = "d2"
  /\ ~isEditing
  /\ editingHandle = "none"
  /\ trace = <<CallSelection("d2")>>

\* no drawing of the Store has its body within the body threshold of the pixel
NoBody(pt) ==
  \A k \in 1..Len(drawings) :
    ~ShapeHit(Chart, interval, drawings[k], pt.x, pt.y)

\* C23: with no tool armed, a click that hits no handle and no body while a drawing
\* is selected or being edited leaves nothing selected, not editing and no handle,
\* calls the selection callback once with null, and leaves the Store as it was.
C23_EmptyClickDeselects ==
  [][\A pt \in SelectPointers :
       (/\ pt.has /\ currentTool = "none" /\ lastInput' = "click"
        /\ selectedId # NoId
        /\ NoCandidate(pt) /\ NoBody(pt)
        /\ OnChartClick(pt) /\ Hits(pt))
         => /\ selectedId' = NoId
            /\ ~isEditing'
            /\ editingHandle' = "none"
            /\ trace' = <<CallSelection(NoId)>>
            /\ ~popupVisible'
            /\ drawings' = drawings]_vars

\* an empty click has ended the edit of a handle of d1, which is still in the Store
C23_EditEndedByEmptyClick ==
  /\ lastInput = "click"
  /\ before.selectedId = "d1"
  /\ before.isEditing
  /\ before.editingHandle = "end"
  /\ lastHit = NoHit
  /\ selectedId = NoId
  /\ ~isEditing
  /\ editingHandle = "none"
  /\ trace = <<CallSelection(NoId)>>
  /\ StoreHas(drawings, "d1")

(***************************************************************************)
(* Properties of editing, checked under SpecEdit                           *)
(***************************************************************************)
HandleIndex(handle) == IF handle = "start" THEN 1 ELSE 2

\* u is d after the edit of the handle being edited with the pointer at chartPoint:
\* the handle has the time of the pointer and its price, or with shift held the
\* price of the other handle; the other handle and all else of d is kept; the
\* base is the new pair of points under the active interval
EditWritten(d, u, chartPoint) ==
  /\ u.points[HandleIndex(editingHandle)].time = chartPoint.time
  /\ u.points[HandleIndex(editingHandle)].price
       \in {chartPoint.price} \cup
           (IF shiftDown THEN {d.points[HandleIndex(OtherHandle(editingHandle))].price} ELSE {})
  /\ u.points[HandleIndex(OtherHandle(editingHandle))]
       = d.points[HandleIndex(OtherHandle(editingHandle))]
  /\ Len(u.points) = 2
  /\ u.hasBase
  /\ u.basePoints = u.points
  /\ u.baseInterval = interval
  /\ u.id = d.id /\ u.tool = d.tool /\ u.color = d.color /\ u.interval = d.interval

StaleSelection == selectedId # NoId /\ ~StoreHas(drawings, selectedId)

\* C26: an edit move, a delete by key or by the popup button, whose selected id is
\* no longer in the Store, and a removeDrawing of an id that is not in the Store,
\* leave the Store as it was; the edit move calls nothing back.
C26_StaleTargetIgnored ==
  [][/\ (/\ StaleSelection
         /\ \/ lastInput' = "move" /\ EditingMove
            \/ lastInput' \in {"key", "delete"} /\ selectedId' = NoId)
          => (drawings' = drawings /\ (lastInput' = "move" => trace' = <<>>))
     /\ (lastInput' = "removeDrawing" /\ ~StoreHas(drawings, "d1"))
          => (drawings' = drawings /\ trace' = <<>>)]_vars

\* a pointer move found a handle of d1 being edited after d1 had left the Store
C26_StaleEditIgnored ==
  /\ lastInput = "move"
  /\ before.selectedId = "d1"
  /\ before.isEditing
  /\ before.ids = {}
  /\ selectedId = "d1"
  /\ isEditing
  /\ drawings = <<>>
  /\ trace = <<>>

\* a delete key found d1 selected after d1 had left the Store
C26_StaleDeleteIgnored ==
  /\ lastInput = "key"
  /\ before.selectedId = "d1"
  /\ before.ids = {}
  /\ selectedId = NoId
  /\ drawings = <<>>
  /\ trace = <<CallRemove("d1"), CallSelection(NoId)>>

(***************************************************************************)
(* Properties of the gesture and the pointer, checked under Spec           *)
(***************************************************************************)
\* C25: while a gesture is in progress a pointer move leaves the Store as it was
\* and changes at most the current mouse point.
C25_MoveKeepsStore ==
  [][\A pt \in PointerEvents :
       (isDrawing /\ OnChartMove(pt))
         => /\ drawings' = drawings
            /\ UNCHANGED <<interval, isDrawing, startPoint, currentTool, selectedId, isEditing,
                           editingHandle, metaDown, shiftDown, popupVisible>>]_vars

\* the part of C25 that holds: with a tool armed, a pointer move during a gesture
\* leaves the Store as it was and calls nothing back
C25_ArmedMoveKeepsStore ==
  [][\A pt \in PointerEvents :
       (isDrawing /\ currentTool # "none" /\ OnChartMove(pt))
         => (drawings' = drawings /\ trace' = <<>>)]_vars

(***************************************************************************)
(* Properties of hitTestHandles, checked under SpecHandles                 *)
(***************************************************************************)
\* the handles of the projected drawing that are at least as near as the other one
NearerHandles(g) ==
  { handle \in {"start", "end"} :
      HandleDistance(g, handle) <= HandleDistance(g, OtherHandle(handle)) }

\* the handles of the projected drawing d that are candidates at the pixel: those
\* within the handle threshold, and for a line whose segment is within it the
\* nearer handle
CandidateHandles(d, g, seg) ==
  IF ~g.ok THEN {}
  ELSE { handle \in {"start", "end"} :
           HandleDistance(g, handle) <= HandleThreshold * HandleThreshold * g.D * g.D }
         \cup (IF /\ d.tool = "line"
                  /\ seg.num <= HandleThreshold * HandleThreshold * g.D * g.D * seg.den
                 THEN NearerHandles(g) ELSE {})

\* the candidates of the drawing d, each with its squared distance num/den
CandidatesOf(d, g) ==
  { [id |-> d.id, handle |-> handle, num |-> HandleDistance(g, handle), den |-> g.D * g.D] :
      handle \in CandidateHandles(d, g, SegmentOf(g)) }

HandleCandidatesAt(ds, px) ==
  UNION { CandidatesOf(ds[k], Projected(MainChart("1m"), "1m", ds[k], px.x, px.y)) :
            k \in 1..Len(ds) }

\* hit is null when there is no candidate, else one of the nearest candidates
NearestAmong(hit, cands) ==
  IF cands = {} THEN hit = NoHit
  ELSE \E c \in cands :
         /\ hit = [id |-> c.id, handle |-> c.handle]
         /\ \A e \in cands : c.num * e.den <= e.num * c.den

\* C27: hitTestHandles returns null exactly when no drawing has an end point within
\* 8 pixels of the pixel and no line has its segment within 8 pixels; otherwise it
\* returns a candidate of smallest distance over all drawings and both handles,
\* the nearer end of a line whose segment is within 8 pixels being a candidate at
\* its own distance.
C27_NearestCandidate ==
  hitPixel.has => NearestAmong(hitHandle, HandleCandidatesAt(hitStore, hitPixel))

\* the segment of the long line is within the threshold of the pixel, its ends are
\* not, and the handle of the other drawing that is nearer was returned
C27_HandleBeatsSegment ==
  /\ hitPixel.has
  /\ Len(hitStore) = 2
  /\ hitStore[1] = Long
  /\ hitHandle.id = hitStore[2].id
  /\ \E c \in HandleCandidatesAt(hitStore, hitPixel) :
       c.id = "d2" /\ c.num > HandleThreshold * HandleThreshold * c.den

(***************************************************************************)
(* Properties of snapping, checked under SpecSnap                          *)
(***************************************************************************)
\* candle i is the one whose bucket holds the time t
Contains(chart, iv, i, t) ==
  /\ chart.candles[i].time <= t
  /\ t < chart.candles[i].time + secondsForInterval(iv)

\* candle i is the last one not after the time t, or the first candle if all are
AtOrBefore(chart, i, t) ==
  IF \E j \in DOMAIN chart.candles : chart.candles[j].time <= t
    THEN /\ chart.candles[i].time <= t
         /\ \A j \in DOMAIN chart.candles :
              chart.candles[j].time <= t => chart.candles[j].time <= chart.candles[i].time
    ELSE i = 1

OhlcOf(c) == {c.open, c.high, c.low, c.close}

\* p is on candle c at the one of its four values nearest to price
OnNearestValue(c, price, p) ==
  /\ p.time = c.time
  /\ p.price \in OhlcOf(c)
  /\ \A v \in OhlcOf(c) : Abs(p.price - price) <= Abs(v - price)

\* p is raw snapped to the candle whose bucket holds the time of raw
SnappedToContaining(raw, p) ==
  \E i \in DOMAIN Chart.candles :
    Contains(Chart, interval, i, raw.time) /\ OnNearestValue(Chart.candles[i], raw.price, p)

\* p is raw snapped to the last candle not after the time of raw
SnappedToAtOrBefore(raw, p) ==
  \E i \in DOMAIN Chart.candles :
    AtOrBefore(Chart, i, raw.time) /\ OnNearestValue(Chart.candles[i], raw.price, p)

\* C28 as stated: with the snapping modifier held, the point of a click with a tool
\* armed and of an editing move is replaced by the time of the candle whose bucket
\* holds its time and the nearest of that candle's open, high, low and close.
C28_SnapsToContainingCandle ==
  [][\A pt \in SnapPointers :
       (/\ pt.has /\ metaDown
        /\ screenToChartPoint(Chart, interval, pt.x, pt.y) # NoPoint)
         => /\ (currentTool # "none" /\ OnChartClick(pt))
                 => IF ~isDrawing
                      THEN SnappedToContaining(screenToChartPoint(Chart, interval, pt.x, pt.y),
                                               startPoint')
                      ELSE trace' # <<>>
                             => SnappedToContaining(screenToChartPoint(Chart, interval, pt.x, pt.y),
                                                    trace'[1].drawing.points[2])
            /\ (EditingMove /\ StoreHas(drawings, selectedId) /\ OnChartMove(pt))
                 => /\ SnappedToContaining(screenToChartPoint(Chart, interval, pt.x, pt.y),
                         StoreGet(drawings', selectedId).points[HandleIndex(editingHandle)])
                    /\ trace' = <<CallUpdated(StoreGet(drawings', selectedId))>>]_vars

\* C28: with the snapping modifier held, the point of a click with a tool armed
\* and of an editing move is replaced by the time of the last candle that is not
\* after its time, which is the candle whose bucket holds it when there is one and
\* the last candle for a point further right, and the nearest of that candle's
\* open, high, low and close.
C28_SnapsToCandleAtOrBefore ==
  [][\A pt \in SnapPointers :
       (/\ pt.has /\ metaDown
        /\ screenToChartPoint(Chart, interval, pt.x, pt.y) # NoPoint)
         => /\ (currentTool # "none" /\ OnChartClick(pt))
                 => IF ~isDrawing
                      THEN SnappedToAtOrBefore(screenToChartPoint(Chart, interval, pt.x, pt.y),
                                               startPoint')
                      ELSE trace' # <<>>
                             => SnappedToAtOrBefore(screenToChartPoint(Chart, interval, pt.x, pt.y),
                                                    trace'[1].drawing.points[2])
            /\ (EditingMove /\ StoreHas(drawings, selectedId) /\ OnChartMove(pt))
                 => /\ SnappedToAtOrBefore(screenToChartPoint(Chart, interval, pt.x, pt.y),
                         StoreGet(drawings', selectedId).points[HandleIndex(editingHandle)])
                    /\ trace' = <<CallUpdated(StoreGet(drawings', selectedId))>>]_vars

\* with the modifier held, a handle of the line has been moved to a pixel a
\* whole bar past the last candle and stored on the close of the last candle
C28_EditSnappedFromMargin ==
  /\ metaDown
  /\ isEditing
  /\ Len(trace) = 1
  /\ trace[1].cb = "onDrawingUpdated"
  /\ \E k \in 1..2 :
       trace[1].drawing.points[k]
         = [time |-> getLastCandleTime(Chart), price |-> Chart.candles[Len(Chart.candles)].close]

\* with the modifier held, a line has been created whose end was clicked a whole
\* bar past the last candle and stored on the close of the last candle
C28_EndSnappedFromMargin ==
  /\ metaDown
  /\ Len(trace) = 1
  /\ trace[1].cb = "onDrawingComplete"
  /\ trace[1].drawing.points[2]
       = [time |-> getLastCandleTime(Chart), price |-> Chart.candles[Len(Chart.candles)].close]

(***************************************************************************)
(* Properties of the horizontal lock                                       *)
(***************************************************************************)
\* C29: with shift held, a click that completes a line or a rectangle creates it
\* with the end at the price of the start; and an editing move on a stored line or
\* rectangle puts the edited handle at the price of the other handle.
C29_HorizontalLock ==
  [][\A pt \in PointerEvents :
       (pt.has /\ shiftDown)
         => /\ (/\ currentTool \in {"line", "rectangle"} /\ isDrawing
                /\ OnChartClick(pt) /\ trace' # <<>>)
                 => trace'[1].drawing.points[2].price = trace'[1].drawing.points[1].price
            /\ (/\ EditingMove /\ StoreHas(drawings, selectedId)
                /\ StoreGet(drawings, selectedId).tool \in {"line", "rectangle"}
                /\ OnChartMove(pt) /\ trace' # <<>>)
                 => StoreGet(drawings', selectedId).points[1].price
                      = StoreGet(drawings', selectedId).points[2].price]_vars

\* the part of C29 that holds: the lock as above for the line tool and for a
\* stored line
C29_LineLock ==
  [][\A pt \in PointerEvents :
       (pt.has /\ shiftDown)
         => /\ (/\ currentTool = "line" /\ isDrawing
                /\ OnChartClick(pt) /\ trace' # <<>>)
                 => trace'[1].drawing.points[2].price = trace'[1].drawing.points[1].price
            /\ (/\ EditingMove /\ StoreHas(drawings, selectedId)
                /\ StoreGet(drawings, selectedId).tool = "line"
                /\ OnChartMove(pt) /\ trace' # <<>>)
                 => StoreGet(drawings', selectedId).points[1].price
                      = StoreGet(drawings', selectedId).points[2].price]_vars

\* the editing half of C29 for a stored rectangle, checked under SpecEdit
C29_RectangleEditLock ==
  [][\A pt \in PointerEvents :
       (/\ pt.has /\ shiftDown /\ lastInput' = "move"
        /\ EditingMove /\ StoreHas(drawings, selectedId)
        /\ StoreGet(drawings, selectedId).tool = "rectangle"
        /\ OnChartMove(pt) /\ trace' # <<>>)
         => StoreGet(drawings', selectedId).points[1].price
              = StoreGet(drawings', selectedId).points[2].price]_vars

(***************************************************************************)
(* Properties of the times of created drawings, checked under SpecSnap     *)
(***************************************************************************)
\* the time is on the candle grid of the active interval
BucketAligned(t) == t % secondsForInterval(interval) = 0

\* C30: every point of a drawing handed to the completion callback has a time on
\* the candle grid of the active interval, the points placed in the right margin
\* included.
C30_CreatedTimesAligned ==
  \A i \in 1..Len(trace) :
    trace[i].cb = "onDrawingComplete"
      => \A k \in 1..Len(trace[i].drawing.points) :
           BucketAligned(trace[i].drawing.points[k].time)

(***************************************************************************)
(* Properties of the selection and the Store                               *)
(***************************************************************************)
\* C33: the selected id is null or the id of a drawing in the Store.
C33_SelectedInStore == selectedId = NoId \/ StoreHas(drawings, selectedId)

\* u is d but for the handle being edited and the base
OnlyHandleEdited(d, u) ==
  /\ u.points[HandleIndex(OtherHandle(editingHandle))]
       = d.points[HandleIndex(OtherHandle(editingHandle))]
  /\ Len(u.points) = Len(d.points)
  /\ u.id = d.id /\ u.tool = d.tool /\ u.color = d.color /\ u.interval = d.interval

\* C34: a pointer move while a handle of a stored drawing is being edited changes
\* of the manager only that drawing, and of it only the handle and the base: its
\* other handle, id, tool and colour, the ids of the Store and their order, and
\* every other drawing stay as they were.
C34_EditFrame ==
  [][\A pt \in PointerEvents :
       (/\ EditingMove /\ StoreHas(drawings, selectedId)
        /\ OnChartMove(pt))
         => /\ Len(drawings') = Len(drawings)
            /\ \A k \in 1..Len(drawings) :
                 IF drawings[k].id = selectedId
                   THEN OnlyHandleEdited(drawings[k], drawings'[k])
                   ELSE drawings'[k] = drawings[k]
            /\ UNCHANGED <<interval, isDrawing, startPoint, currentMousePoint, currentTool,
                           selectedId, isEditing, editingHandle, metaDown, shiftDown,
                           popupVisible>>]_vars

\* the end handle of d1 has been moved up a row while the rectangle is in the Store
C34_LineEditedBesideBox ==
  /\ isEditing
  /\ selectedId = "d1"
  /\ editingHandle = "end"
  /\ drawings = << [HostLine("1m") EXCEPT
                      !.points = << [time |-> 60, price |-> 2 * RowGap],
                                    [time |-> 120, price |-> 2 * RowGap] >>,
                      !.basePoints = << [time |-> 60, price |-> 2 * RowGap],
                                        [time |-> 120, price |-> 2 * RowGap] >>],
                   Box >>
  /\ trace = <<CallUpdated(drawings[1])>>

(***************************************************************************)
(* Order of the two end points under the remapper, checked under SpecRemap *)
(***************************************************************************)
\* -1, 0 or 1 as a is before, at or after b
Order(a, b) == IF a < b THEN -1 ELSE IF a = b THEN 0 ELSE 1

\* the two times lie in the same bar of the interval
SameBar(a, b, iv) == a \div secondsForInterval(iv) = b \div secondsForInterval(iv)

\* C35 as stated: after a switch of interval the two shown times are in the same
\* order, before, equal or after, as the two authored times.
C35_OrderPreserved ==
  switches # <<>> =>
    Order(shown.points[1].time, shown.points[2].time)
      = Order(authored.points[1].time, authored.points[2].time)

\* C35: after a switch to a coarser interval the two shown times are in the order
\* of the authored times or equal; after a switch to a finer interval they are in
\* the order of the authored times when these lie in different bars of the
\* authored interval, and the first is before the second when they lie in the same
\* bar; after a switch back to the authored interval the order is the authored one.
C35_OrderUpToBars ==
  switches # <<>> =>
    IF shown.interval = authored.interval
      THEN Order(shown.points[1].time, shown.points[2].time)
             = Order(authored.points[1].time, authored.points[2].time)
    ELSE IF secondsForInterval(shown.interval) > secondsForInterval(authored.interval)
      THEN Order(shown.points[1].time, shown.points[2].time)
             \in {0, Order(authored.points[1].time, authored.points[2].time)}
    ELSE IF SameBar(authored.points[1].time, authored.points[2].time, authored.interval)
      THEN Order(shown.points[1].time, shown.points[2].time) = -1
      ELSE Order(shown.points[1].time, shown.points[2].time)
             = Order(authored.points[1].time, authored.points[2].time)

\* a 1h drawing whose first time is after its second in the same hour is shown
\* under 1m with the first before the second
C35_ReversedInSameBar ==
  /\ authored.interval = "1h"
  /\ authored.points[1].time > authored.points[2].time
  /\ SameBar(authored.points[1].time, authored.points[2].time, "1h")
  /\ switches = <<"1m">>
  /\ shown.points[1].time < shown.points[2].time

\* the realtime series of App: selections, fetches, candle events and history
EngineIdle ==
  /\ MgrInit /\ LegacyInit /\ CustomInit /\ RemapIdle /\ ProjIdle /\ ChartIdle /\ HitIdle
  /\ LifeInit /\ HookIdle /\ SelIdle
engineVars == <<mgrVars, legacyVars, customVars, remapVars, projVars, chartVars,
                hitVars, lifeVars, hookVars, selVars>>

FeedOnly == UNCHANGED <<engineVars, wsVars, playVars>>

InitFeed == EngineIdle /\ FeedInit /\ WsIdle /\ PlaybackIdle

NextFeed ==
  \/ FeedOnly /\ \E symbol \in Symbols : SelectSymbol(symbol)
  \/ FeedOnly /\ \E iv \in FeedIntervals : SelectInterval(iv)
  \/ FeedOnly /\ \E load \in loads, ts \in DistinctAnswers : FetchResolves(load, ts)
  \/ FeedOnly /\ \E load \in loads : FetchRejects(load)
  \/ FeedOnly /\ \E time \in FeedTimes, final \in BOOLEAN : CandleEvent(time, final)
  \/ FeedOnly /\ handleRangeChange
  \/ FeedOnly /\ \E h \in BagToSet(histories), ts \in Answers : HistoryResolves(h, ts)
  \/ FeedOnly /\ \E h \in BagToSet(histories) : HistoryRejects(h)

SpecFeed == InitFeed /\ [][NextFeed]_vars

\* one subscription: socket events in any order with the call of cleanup
WsOnly == UNCHANGED <<engineVars, feedVars, playVars>>

InitWs == EngineIdle /\ FeedIdle /\ WsInit /\ PlaybackIdle

NextWs ==
  \/ WsOnly /\ cleanup
  \/ WsOnly /\ PrimaryOpen
  \/ WsOnly /\ PrimaryError
  \/ WsOnly /\ PrimaryClose
  \/ WsOnly /\ \E payload \in Payloads : PrimaryMessage(payload)
  \/ WsOnly /\ FallbackOpen
  \/ WsOnly /\ FallbackError
  \/ WsOnly /\ FallbackClose
  \/ WsOnly /\ \E payload \in Payloads : FallbackMessage(payload)

SpecWs == InitWs /\ [][NextWs]_vars

\* playback over a fixed list: the calls of the controller and its timeouts
PlayOnly == UNCHANGED <<engineVars, feedVars, wsVars>>

\* indices handed to jumpTo: beside the list on both sides and inside it
JumpIndices == (0 - 2)..(MaxPlayback + 1)

InitPlay == EngineIdle /\ FeedIdle /\ WsIdle /\ PlaybackInit

NextPlay ==
  \/ PlayOnly /\ \E last \in BOOLEAN : play(last)
  \/ PlayOnly /\ pause
  \/ PlayOnly /\ togglePlay
  \/ PlayOnly /\ stepForward
  \/ PlayOnly /\ stepBackward
  \/ PlayOnly /\ \E index \in JumpIndices : jumpTo(index)
  \/ PlayOnly /\ Tick

SpecPlay == InitPlay /\ [][NextPlay]_vars

\* the browser fires a timeout that stays pending
SpecPlayFair == SpecPlay /\ WF_vars(PlayOnly /\ Tick)

(***************************************************************************)
(* Redraws requested by pointer moves (CustomChartDrawing.onNativeMouseMove *)
(* and ChartDrawingPlugin.onMouseMove share the rafId pattern).            *)
(***************************************************************************)
\* C31: however many pointer moves arrive between two animation frames, at
\* most one frame request is pending (rafId is set exactly while it is) and at
\* most one redraw is performed for them.
C31_MovesCoalesced ==
  /\ customPending <= 1
  /\ customRafId <=> customPending = 1
  /\ customRenders <= 1

\* several moves were delivered before the frame ran, and the frame they
\* requested has rendered once and left nothing requested
C31_ManyMovesOneRedraw ==
  /\ customMoves >= 2
  /\ customRenders = 1
  /\ customPending = 0
  /\ ~customRafId

(***************************************************************************)
(* The realtime candle series.                                             *)
(***************************************************************************)
StrictlyAscending(list) == \A i \in 1..(Len(list) - 1) : list[i].time < list[i + 1].time

OnlyActiveMerged == merged # NoMerge => merged.pairing = Pairing(selectedSymbol, appInterval)
OneHistoryInFlight == BagCardinality(histories) <= 1

\* C36: the candles merged into the realtime series belong to the selected
\* symbol and interval (the answer to a history request of an earlier
\* selection is never merged), and at most one history request is in flight.
C36_ActiveOnlyOneInFlight == OnlyActiveMerged /\ OneHistoryInFlight

(***************************************************************************)
(* The realtime subscription.                                              *)
(***************************************************************************)
\* C37: after the cleanup function has been called onCandle is never called
\* again and no socket is constructed, however the events of the primary
\* socket interleave with the call; the fallback socket is constructed at most
\* once, and only if the primary socket never opened.
C37_QuietAfterUnsubscribe ==
  /\ ~candleAfter
  /\ ~socketAfter
  /\ fallbacks <= 1
  /\ fallbacks = 1 => ~opened

(***************************************************************************)
(* Playback.                                                               *)
(***************************************************************************)
\* C38: over a fixed list that is not empty, after any sequence of play,
\* pause, togglePlay, stepForward, stepBackward, jumpTo of any integer and
\* timeouts, cursorIndex lies in [0, candles.length - 1] and the visible
\* window is the contiguous slice that ends at cursorIndex and has
\* min(windowSize, cursorIndex + 1) candles.
C38_CursorAndWindow ==
  playbackCandles # <<>> =>
    /\ cursorIndex \in 0..(Len(playbackCandles) - 1)
    /\ Len(visible) = Min(windowSize, cursorIndex + 1)
    /\ \A k \in 1..Len(visible) :
         visible[k] = playbackCandles[cursorIndex + 1 - Len(visible) + k]

\* jumpTo moved the cursor forward to the last candle, where the window is
\* shorter than the list up to the cursor
C38_JumpedPastEnd ==
  /\ lastCall = "jumpTo"
  /\ cursorBefore < cursorIndex
  /\ cursorIndex = Len(playbackCandles) - 1
  /\ windowSize < cursorIndex + 1

Stopped ==
  /\ ~isPlaying
  /\ cursorIndex = Len(playbackCandles) - 1
  /\ ~timerRef

\* C39: once play() is called on a list that is not empty and no call
\* follows, every timeout advances the cursor by exactly one candle and
\* playback stops by itself: isPlaying is false, cursorIndex is
\* candles.length - 1 and no timeout is pending; pause, stepForward,
\* stepBackward and jumpTo leave no timeout pending.
C39_PlaybackStops ==
  /\ [][(PlayOnly /\ Tick) => cursorIndex' = cursorIndex + 1]_vars
  /\ [](lastCall \in {"pause", "stepForward", "stepBackward", "jumpTo"} => ~timerRef)
  /\ (inputDone ~> Stopped)

\* after the last call, play(), the timeouts alone brought the cursor from an
\* earlier candle to the last one and playback has stopped
C39_StoppedAfterTicks ==
  /\ inputDone
  /\ lastCall = "tick"
  /\ cursorBefore = cursorIndex - 1
  /\ Stopped
====
